---- MODULE Spec2Model ----
(***************************************************************************)
(* Model of the ask pipeline of the Glass assistant:                       *)
(*   - sendMessage of src/features/ask/askService.js (the orchestrator),   *)
(*   - the stream produced by createStreamingLLM(...).streamChat of        *)
(*     src/common/ai/providers/bedrock_claude.js,                          *)
(*   - the provider table of the AI factory.                               *)
(*                                                                         *)
(* Text is modelled as a sequence of units.  A unit is one character       *)
(* ("a", "b", "sp" = space, "at" = a character outside the salvage class   *)
(* such as '@', "nul" = a control character, "lt"/"gt" = '<'/'>', "NL" =   *)
(* newline) or one fixed piece of wire text:                               *)
(*   "P"    the line prefix            data:<space>                        *)
(*   "DONE" the terminator text        [DONE]                              *)
(*   "JO"   the opening of an event    {"choices":[{"delta":{"content":"   *)
(*   "JC"   the closing of an event    "}}]}                               *)
(*   "ed"   the substring 'ed' (one of the adapter's "artifacts")          *)
(*   "lf"   a line feed inside a string value, \n in the JSON of an event  *)
(***************************************************************************)
EXTENDS Integers, Sequences, FiniteSets, TLC

\* ------------------------------------------------------------------ bounds
MaxLines == 3        \* lines in the stream of a plain (non-Bedrock) provider
MaxNative == 2       \* native items in a Bedrock response stream
MaxAppends == 11     \* calls of addToShortTerm in a behaviour of the window
MaxTicks == 3        \* advances of the clock in a behaviour of the window
MaxRendered == 5
MaxMatched == 2
MaxMessages == 2
MaxCalls == 2     \* appends in a behaviour with renderings of the window

\* ---------------------------------------------------------------- helpers
BoundedSeq(S, n) == UNION { [1..k -> S] : k \in 0..n }

RECURSIVE Flatten(_)
Flatten(ss) == IF ss = <<>> THEN <<>> ELSE Head(ss) \o Flatten(Tail(ss))

IsWhitespace(u) == u \in {"sp", "NL"}

\* String.prototype.trim
RECURSIVE TrimLeft(_)
TrimLeft(s) ==
    IF s # <<>> /\ IsWhitespace(Head(s)) THEN TrimLeft(Tail(s)) ELSE s

RECURSIVE TrimRight(_)
TrimRight(s) ==
    IF s # <<>> /\ IsWhitespace(s[Len(s)])
    THEN TrimRight(SubSeq(s, 1, Len(s) - 1)) ELSE s

Trim(s) == TrimRight(TrimLeft(s))

\* String.prototype.split('\n')
RECURSIVE SplitNL(_, _)
SplitNL(s, cur) ==
    IF s = <<>> THEN <<cur>>
    ELSE IF Head(s) = "NL" THEN <<cur>> \o SplitNL(Tail(s), <<>>)
    ELSE SplitNL(Tail(s), Append(cur, Head(s)))

VARIABLES
    pc,             \* position of sendMessage
    userPrompt,     \* the argument of sendMessage (a text, or <<"null">>)
    askWindow,      \* TRUE iff windowPool.get('ask') exists and is not destroyed
    storedKey,      \* TRUE iff getStoredApiKey() yields a key
    provider,       \* getStoredProvider()
    uid,            \* what authService.getCurrentUserId() returned at the save
    ui,             \* notifications sent to askWindow.webContents, in order
    effects,        \* collaborators called so far
    screenshot,     \* TRUE iff a screenshot was captured for the user message
    wire,           \* plain provider: text of the response body not yet read
    sent,           \* plain provider: the lines the response body was made of
    native,         \* Bedrock: items of apiResponse.body not yet iterated
    queue,          \* Bedrock: chunks enqueued on the ReadableStream, unread
    emitted,        \* Bedrock: every chunk enqueued so far
    streamState,    \* "none", "open", "closed", "errored"
    readerCancelled,\* reader.cancel() was called
    fullResponse,   \* sendMessage's accumulation buffer
    sessionId,      \* the session id obtained for the save
    db,             \* askRepository.addAiMessage calls, in order
    persistFailed,  \* the save block's catch(dbError) ran
    result,         \* what sendMessage returned
    env,            \* process.env, the variables the credential manager reads
    opts,           \* the options the last Bedrock adapter was created with
    cachedKnowledgeBaseId,  \* credentialManager.cachedKnowledgeBaseId
    memoryManager,  \* bedrock_claude.js's module-level memoryManager
    client,         \* the BedrockRuntimeClient of the last adapter created
    lastConfig,     \* what the last getProviderConfig call returned
    shortTerm,      \* the memory manager's shortTerm array
    now,            \* Date.now(), from the start of the model's clock
    appended,       \* history: every entry addToShortTerm was given
    context,        \* what the last getConversationContext call returned
    contextFor,     \* the adapter that made that call (0: none yet)
    factoryResult,  \* the last call of the factory and what came of it
    kbResult,       \* the last queryKnowledgeBase call and what it returned
    synResult,      \* the last expansion of a key term and what it listed
    translation,    \* the messages the last streamChat call was given
    build,          \* the createLLM/createStreamingLLM calls under way
    kbConfig        \* BedrockService: initialised, and the id configured last

vars == << pc, userPrompt, askWindow, storedKey, provider, uid, ui, effects,
           screenshot, wire, sent, native, queue, emitted, streamState,
           readerCancelled, fullResponse, sessionId, db, persistFailed,
           result, env, opts, cachedKnowledgeBaseId, memoryManager, client,
           lastConfig, shortTerm, now, appended, context, contextFor,
           factoryResult, kbResult, synResult, translation, build, kbConfig >>

Range(f) == { f[i] : i \in DOMAIN f }

\* --------------------------------------------------------------- inputs
Undefined == <<"undef">>          \* a missing (null/undefined) userPrompt
Prompts == { Undefined, <<>>, <<"sp">>, <<"NL", "sp">>, <<"sp", "a", "sp">> }
\* "gemini" takes the same path as "openai" through this pipeline
Providers == { "openai", "bedrock", "other" }
SessionIds == { "s1", "s2" }

\* one SSE event carrying the token t
TokLine(t) == <<"P", "JO">> \o t \o <<"JC">>
DoneLine == <<"P", "DONE">>

\* the lines a plain provider's response body is made of
LineKinds == { TokLine(<<"a">>), TokLine(<<"b">>), TokLine(<<>>), DoneLine,
               <<"P", "a">>,      \* 'data: ' followed by text that is no JSON
               <<"P", "at">> }    \* the same, with nothing salvageable in it

WireOf(ls) == Flatten([i \in 1..Len(ls) |-> ls[i] \o <<"NL">>])

\* the items of a Bedrock response stream
NativeTexts == { <<"a">>, <<"b">>, <<"nul">>, <<"a", "nul", "b">>,
                 <<"ed", "sp", "a">>,     \* an artifact and a blank before text
                 <<"a", "lt", "b">>,      \* text with an unclosed '<' in it
                 <<"a", "lf", "b">> }     \* two lines of text
NativeItems == { [kind |-> "delta", text |-> t] : t \in NativeTexts }
               \cup { [kind |-> "other", text |-> <<>>],     \* another chunk type
                      [kind |-> "garbage", text |-> <<>>],   \* bytes that are no JSON
                      [kind |-> "nochunk", text |-> <<>>] }  \* an item without chunk.bytes

\* ------------------------------------------------- the Bedrock adapter
\* the class leaves out \x0A and \x0D
IsControl(u) == u = "nul"

\* .replace(/[\x00-\x09\x0B-\x0C\x0E-\x1F\x7F-\x9F]/g, '')
StripControl(t) == SelectSeq(t, LAMBDA u : ~IsControl(u))

\* .replace(/\/id\s*|sLo\s*|g\s*\(\s*|ed\s*|ith\s*/g, ''): an artifact and the
\* whitespace after it
RECURSIVE DropSpaces(_)
DropSpaces(t) ==
    IF t # <<>> /\ Head(t) = "sp" THEN DropSpaces(Tail(t)) ELSE t

RECURSIVE StripArtifacts(_)
StripArtifacts(t) ==
    IF t = <<>> THEN <<>>
    ELSE IF Head(t) = "ed" THEN StripArtifacts(DropSpaces(Tail(t)))
    ELSE <<Head(t)>> \o StripArtifacts(Tail(t))

\* .replace(/<[^>]*$/g, ''): from the first '<' with no '>' after it to the end
HasGtAfter(t, i) == \E j \in (i + 1)..Len(t) : t[j] = "gt"
OpenLts(t) == { i \in 1..Len(t) : t[i] = "lt" /\ ~HasGtAfter(t, i) }
StripFragment(t) ==
    IF OpenLts(t) = {} THEN t
    ELSE SubSeq(t, 1, (CHOOSE i \in OpenLts(t) : \A j \in OpenLts(t) : i <= j) - 1)

\* cleanText passing the text on as it came
cleanText_raw(text) == text

\* bedrock_claude.js 752-758
cleanText(text) == StripFragment(StripArtifacts(StripControl(text)))

\* `data: ${ssePayload}\n\n`
SseChunk(clean) == TokLine(clean) \o <<"NL", "NL">>

\* what one iteration of `for await (const item of apiResponse.body)` enqueues
EnqueuedFor(item) ==
    IF item.kind = "delta" /\ item.text # <<>>
    THEN << SseChunk(cleanText(item.text)) >>
    ELSE <<>>

\* ---------------------------------------------- sendMessage's read loop
\* chunk.split('\n').filter(line => line.trim() !== '')
Lines(chunk) == SelectSeq(SplitNL(chunk, <<>>), LAMBDA l : Trim(l) # <<>>)

\* line.startsWith('data: ')
StartsWithData(line) == line # <<>> /\ Head(line) = "P"

ContentChars == { "a", "b", "sp", "at", "lf" }

\* JSON.parse(data) succeeds and json.choices[0]?.delta?.content is a string
IsEvent(data) ==
    LET d == Trim(data) IN
    /\ Len(d) >= 2
    /\ d[1] = "JO"
    /\ d[Len(d)] = "JC"
    /\ \A i \in 2..(Len(d) - 1) : d[i] \in ContentChars

EventToken(data) == LET d == Trim(data) IN SubSeq(d, 2, Len(d) - 1)

\* data.replace(/[^\w\s.,?!;:'"()[\]{}-]/g, '')
InSalvageClass(u) == u \notin { "at", "nul", "lt", "gt" }
safeToken(data) == SelectSeq(data, InSalvageClass)

\* Chunk forwarding the token without the blanks around it
Chunk_trimmed(t) == [type |-> "ask-response-chunk", token |-> Trim(t)]

\* askService.js 147-149, 159-160: the chunk notification of a token
Chunk(t) == [type |-> "ask-response-chunk", token |-> t]
StreamEnd == [type |-> "ask-response-stream-end", token |-> <<>>]
HideTextInput == [type |-> "hide-text-input", token |-> <<>>]

\* HandleLine with the salvage forwarding the salvaged text itself
HandleLine_salvagesText(line, st) ==
    IF ~StartsWithData(line) THEN st
    ELSE LET data == Tail(line) IN
         IF data = <<"DONE">>
         THEN [st EXCEPT !.out = Append(@, StreamEnd), !.done = TRUE]
         ELSE IF IsEvent(data)
         THEN LET token == EventToken(data) IN
              IF token # <<>>
              THEN [st EXCEPT !.full = @ \o token, !.out = Append(@, Chunk(token))]
              ELSE st
         ELSE IF data # <<>> /\ Trim(safeToken(data)) # <<>>
         THEN [st EXCEPT !.full = @ \o safeToken(data),
                         !.out = Append(@, Chunk(safeToken(data)))]
         ELSE st

\* the body of `for (const line of lines)` for one line; st is
\* [full, out, done]: the buffer, the notifications sent, [DONE] was seen
HandleLine(line, st) ==
    IF ~StartsWithData(line) THEN st
    ELSE LET data == Tail(line) IN
         IF data = <<"DONE">>
         THEN [st EXCEPT !.out = Append(@, StreamEnd), !.done = TRUE]
         ELSE IF IsEvent(data)
         THEN LET token == EventToken(data) IN
              IF token # <<>>
              THEN [st EXCEPT !.full = @ \o token, !.out = Append(@, Chunk(token))]
              ELSE st
         ELSE IF data # <<>> /\ Trim(safeToken(data)) # <<>>
         THEN [st EXCEPT !.full = @ \o <<"sp">>, !.out = Append(@, Chunk(<<"sp">>))]
         ELSE st

\* the for loop: it is left at the first [DONE]
RECURSIVE HandleLines(_, _)
HandleLines(lines, st) ==
    IF lines = <<>> \/ st.done THEN st
    ELSE HandleLines(Tail(lines), HandleLine(Head(lines), st))

\* ------------------------------------------------- credential manager
\* null, undefined and '' alike: the falsy value of a string-valued field
None == "none"

\* a || b
Or(a, b) == IF a # None THEN a ELSE b

EnvNames == { "AWS_ACCESS_KEY_ID", "AWS_SECRET_ACCESS_KEY", "AWS_SESSION_TOKEN",
              "AWS_REGION", "AWS_BEDROCK_MODEL", "AWS_KNOWLEDGE_BASE_ID",
              "OPENAI_API_KEY" }

\* a variable of the environment is unset, or set to a value of its own
EnvValue(n) == "env:" \o n
Envs == { [n \in EnvNames |-> IF n \in S THEN EnvValue(n) ELSE None] :
            S \in { T \in SUBSET EnvNames :
                       Cardinality(T) <= 1 \/ Cardinality(EnvNames \ T) <= 1 } }
EnvUnset == [n \in EnvNames |-> None]

\* what getStoredApiKey() resolves to: the key the user entered, if any
UserKey == "user-key"
StoredKeyValue == IF storedKey THEN UserKey ELSE None

\* kbId.trim(), on the knowledge-base ids of the model
PaddedKb == " KB-padded "
BlankKb == "  "
TrimId(k) ==
    IF k = PaddedKb THEN "KB-padded" ELSE IF k = BlankKb THEN None ELSE k

DefaultRegion == "us-east-1"
DefaultModel == "anthropic.claude-3-haiku-20240307-v1:0"
DefaultKb == "TERHHPXSLM"

\* credentialManager.js 18-24
getApiKey(p) == Or(StoredKeyValue, env["OPENAI_API_KEY"])

\* getAwsCredentials with the environment's key preferred to the stored one
getAwsCredentials_envFirst ==
    IF env["AWS_SESSION_TOKEN"] # None
    THEN [accessKeyId |-> env["AWS_ACCESS_KEY_ID"],
          secretAccessKey |-> env["AWS_SECRET_ACCESS_KEY"],
          sessionToken |-> env["AWS_SESSION_TOKEN"]]
    ELSE [accessKeyId |-> Or(env["AWS_ACCESS_KEY_ID"], StoredKeyValue),
          secretAccessKey |-> env["AWS_SECRET_ACCESS_KEY"],
          sessionToken |-> None]

\* credentialManager.js 30-55
getAwsCredentials ==
    IF env["AWS_SESSION_TOKEN"] # None
    THEN [accessKeyId |-> env["AWS_ACCESS_KEY_ID"],
          secretAccessKey |-> env["AWS_SECRET_ACCESS_KEY"],
          sessionToken |-> env["AWS_SESSION_TOKEN"]]
    ELSE [accessKeyId |-> Or(StoredKeyValue, env["AWS_ACCESS_KEY_ID"]),
          secretAccessKey |-> env["AWS_SECRET_ACCESS_KEY"],
          sessionToken |-> None]

\* credentialManager.js 61-64
getAwsRegion == Or(env["AWS_REGION"], DefaultRegion)

\* credentialManager.js 70-77
getKnowledgeBaseId ==
    IF cachedKnowledgeBaseId # None THEN cachedKnowledgeBaseId
    ELSE Or(env["AWS_KNOWLEDGE_BASE_ID"], DefaultKb)

\* credentialManager.js 83-87: the value of cachedKnowledgeBaseId afterwards
setKnowledgeBaseId(cached, kbId) ==
    IF kbId # None /\ TrimId(kbId) # None THEN TrimId(kbId) ELSE cached

\* credentialManager.js 94-104
getModelId(p) ==
    IF p = "bedrock" THEN Or(env["AWS_BEDROCK_MODEL"], DefaultModel)
    ELSE IF p = "openai" THEN "gpt-4.1"
    ELSE IF p = "gemini" THEN "gemini-2.5-flash"
    ELSE None

\* credentialManager.js 111-131; it has no throw
getProviderConfig(p) ==
    IF p = "bedrock"
    THEN [provider |-> p, threw |-> None,
          accessKeyId |-> getAwsCredentials.accessKeyId,
          secretAccessKey |-> getAwsCredentials.secretAccessKey,
          sessionToken |-> getAwsCredentials.sessionToken,
          region |-> getAwsRegion,
          model |-> getModelId("bedrock"),
          kbId |-> getKnowledgeBaseId]
    ELSE [provider |-> p, threw |-> None,
          apiKey |-> getApiKey(p),
          model |-> getModelId(p)]

\* the options of an adapter: the fields createLLM/createStreamingLLM read
OptNames == { "apiKey", "awsAccessKeyId", "awsSecretKey", "awsSecretAccessKey",
              "region", "model", "kbId" }
NoOpts == [n \in OptNames |-> None]
OptValue(n) == "opt:" \o n

\* askService.js 75-83: the options sendMessage builds for Bedrock
modelOptions ==
    [NoOpts EXCEPT !["apiKey"] = StoredKeyValue,
                   !["awsSecretKey"] = env["AWS_SECRET_ACCESS_KEY"],
                   !["region"] = Or(env["AWS_REGION"], DefaultRegion),
                   !["model"] = Or(env["AWS_BEDROCK_MODEL"], DefaultModel),
                   !["kbId"] = Or(env["AWS_KNOWLEDGE_BASE_ID"], DefaultKb)]

NoClient == [created |-> FALSE]
NoManager == [created |-> FALSE]
NoConfig == [provider |-> None]

\* bedrock_claude.js 543-575 (and 242-270): the client the adapter is given
BedrockClient(o) ==
    [created |-> TRUE,
     region |-> Or(getAwsRegion, o["region"]),
     accessKeyId |-> Or(Or(getAwsCredentials.accessKeyId, o["apiKey"]),
                        o["awsAccessKeyId"]),
     secretAccessKey |-> Or(Or(getAwsCredentials.secretAccessKey, o["awsSecretKey"]),
                            o["awsSecretAccessKey"]),
     sessionToken |-> getAwsCredentials.sessionToken,
     model |-> Or(o["model"], getModelId("bedrock"))]

\* bedrock_claude.js 543-588 (and 242-283): the adapter is created with
\* options o, which opts remembers; the first adapter also creates the shared
\* memory manager
CreateBedrockAdapter(o) ==
    /\ opts' = o
    /\ client' = BedrockClient(o)
    /\ IF ~memoryManager.created
       THEN LET kbId == Or(o["kbId"], getKnowledgeBaseId) IN
            /\ memoryManager' =
                 [created |-> TRUE,
                  region |-> Or(BedrockClient(o).region, getAwsRegion),
                  credentials |-> getAwsCredentials,
                  knowledgeBaseId |-> kbId]
            /\ cachedKnowledgeBaseId' = setKnowledgeBaseId(cachedKnowledgeBaseId, kbId)
       ELSE UNCHANGED << memoryManager, cachedKnowledgeBaseId >>

\* the options callers pass: nothing, every field, an access key alone, or a
\* knowledge-base id with blanks around it or made of blanks
AllOpts == [n \in OptNames |-> OptValue(n)]
CallerOpts ==
    { NoOpts, AllOpts, [NoOpts EXCEPT !["apiKey"] = OptValue("apiKey")] }
    \cup { [NoOpts EXCEPT !["kbId"] = k] : k \in { PaddedKb, BlankKb } }

\* askService.js 405-410: the options BedrockService.initialize hands to the
\* factory, { ...options, ...managerConfig }
InitializeConfig(options) ==
    [options EXCEPT !["region"] = getProviderConfig("bedrock").region,
                    !["model"] = getProviderConfig("bedrock").model,
                    !["kbId"] = getProviderConfig("bedrock").kbId]

\* ---------------------------------------------------- the memory window
\* bedrock_claude.js 34-35: the defaults of windowSize and windowTime
maxSize == 10
windowTime == 300
windowTimeMs == windowTime * 1000

\* bedrock_claude.js 93-98, _cleanExpiredMessages at time t
cleanExpiredMessages(window, t) ==
    SelectSeq(window, LAMBDA msg : (t - msg.timestamp) <= windowTimeMs)

\* addToShortTerm keeping the oldest entries of a window that is too long
addToShortTerm_keepsOldest(window, content, role, t) ==
    LET pushed == Append(window,
                         [role |-> role, content |-> content, timestamp |-> t])
        cleaned == cleanExpiredMessages(pushed, t)
    IN IF Len(cleaned) > maxSize
       THEN SubSeq(cleaned, 1, maxSize)
       ELSE cleaned

\* bedrock_claude.js 55-70: the window after addToShortTerm(content, role)
\* at time t
addToShortTerm(window, content, role, t) ==
    LET pushed == Append(window,
                         [role |-> role, content |-> content, timestamp |-> t])
        cleaned == cleanExpiredMessages(pushed, t)
    IN IF Len(cleaned) > maxSize
       THEN SubSeq(cleaned, Len(cleaned) - maxSize + 1, Len(cleaned))
       ELSE cleaned

\* the roles and the texts the appends of the model go through in turn
Roles == << "user", "assistant", "client", "vision" >>
MemTexts == << <<"a">>, <<"b">>, <<"a", "b">> >>
RoleOf(k) == Roles[(k % Len(Roles)) + 1]
TextOf(k) == MemTexts[(k % Len(MemTexts)) + 1]

\* bedrock_claude.js 77-82: the fixed texts of getConversationContext
Sentinel == << "No recent conversation context" >>
Header == << "Recent conversation:" >>

\* bedrock_claude.js 84-86
roleLabel(role) ==
    IF role = "client" THEN "Manager"
    ELSE IF role = "assistant" THEN "Assistant"
    ELSE IF role = "vision" THEN "Visual"
    ELSE "User"

\* `${roleLabel}: ${msg.content}`
ContextLine(msg) == << roleLabel(msg.role), ":", "sp" >> \o msg.content

\* contextParts.join("\n")
RECURSIVE JoinNL(_)
JoinNL(parts) ==
    IF parts = <<>> THEN <<>>
    ELSE IF Len(parts) = 1 THEN Head(parts)
    ELSE Head(parts) \o <<"NL">> \o JoinNL(Tail(parts))

\* getConversationContext rendering the window as it stands, expired entries
\* included
getConversationContext_noClean(window, t) ==
    [shortTerm |-> window,
     context |-> IF window = <<>> THEN Sentinel
                 ELSE JoinNL(<<Header>> \o
                             [i \in 1..Len(window) |-> ContextLine(window[i])])]

\* bedrock_claude.js 72-91: the window and the text returned after
\* getConversationContext() at time t
getConversationContext(window, t) ==
    LET cleaned == cleanExpiredMessages(window, t) IN
    [shortTerm |-> cleaned,
     context |-> IF cleaned = <<>> THEN Sentinel
                 ELSE JoinNL(<<Header>> \o
                             [i \in 1..Len(cleaned) |-> ContextLine(cleaned[i])])]

\* bedrock_claude.js 230: the adapters of the process, which all close over
\* the module's one memoryManager; the appends of the model come from them in
\* turn
Adapters == { 1, 2 }
AdapterOf(k) == (k % Cardinality(Adapters)) + 1
NoContext == << "unrendered" >>

\* the clock advances by half the time window, so that an entry is seen at
\* the ages 0, half a window, a window exactly, and more
ClockStep == windowTimeMs \div 2

\* ------------------------------------------------- knowledge-base query
\* bedrock_claude.js 162: a response of more than 50 characters is good
kbThreshold == 50

\* what bedrockAgentRuntime.send comes back with: it rejects, or answers
\* with a text of some length and some retrieved references
KbLengths == { 0, kbThreshold \div 2, kbThreshold, kbThreshold + 1 }
KbFailure == [ok |-> FALSE]
KbAnswers == { [ok |-> TRUE, len |-> n, citations |-> c] :
                 n \in KbLengths, c \in 0..1 }
KbAttempts == { KbFailure } \cup KbAnswers
NotIssued == [ok |-> FALSE, issued |-> FALSE]

\* a text of the query's result, by origin and length: an attempt's
\* response text, with the CITATIONS block after it or not, or the
\* fallbackContext every caller passes, ""
KbText(from, len, cited) == [from |-> from, len |-> len, cited |-> cited]
EmptyFallback == KbText("fallback", 0, FALSE)

\* queryKnowledgeBase returning attempt A's answer without a second attempt
queryKnowledgeBase_firstOnly(kbId, hasClient, a, b, fallbackContext) ==
    IF kbId = None \/ ~hasClient
    THEN [called |-> TRUE, target |-> None, a |-> NotIssued, b |-> NotIssued,
          calls |-> 0,
          threw |-> FALSE, context |-> fallbackContext, citations |-> 0]
    ELSE IF ~a.ok
    THEN [called |-> TRUE, target |-> kbId, a |-> a, b |-> NotIssued, calls |-> 1,
          threw |-> FALSE, context |-> fallbackContext, citations |-> 0]
    ELSE [called |-> TRUE, target |-> kbId, a |-> a, b |-> NotIssued, calls |-> 1,
          threw |-> FALSE,
          context |-> IF a.len > 0 THEN KbText("A", a.len, a.citations > 0)
                      ELSE fallbackContext,
          citations |-> a.citations]

\* bedrock_claude.js 105-226: queryKnowledgeBase under the answers a and b of
\* the knowledge base to the first and the second attempt
queryKnowledgeBase(kbId, hasClient, a, b, fallbackContext) ==
    IF kbId = None \/ ~hasClient
    THEN [called |-> TRUE, target |-> None, a |-> NotIssued, b |-> NotIssued,
          calls |-> 0,
          threw |-> FALSE, context |-> fallbackContext, citations |-> 0]
    ELSE IF ~a.ok
    THEN [called |-> TRUE, target |-> kbId, a |-> a, b |-> NotIssued, calls |-> 1,
          threw |-> FALSE, context |-> fallbackContext, citations |-> 0]
    ELSE IF a.len > kbThreshold
    THEN [called |-> TRUE, target |-> kbId, a |-> a, b |-> NotIssued, calls |-> 1,
          threw |-> FALSE,
          context |-> KbText("A", a.len, a.citations > 0),
          citations |-> a.citations]
    ELSE IF ~b.ok
    THEN [called |-> TRUE, target |-> kbId, a |-> a, b |-> b, calls |-> 2,
          threw |-> FALSE, context |-> fallbackContext, citations |-> 0]
    ELSE IF b.len > a.len
    THEN [called |-> TRUE, target |-> kbId, a |-> a, b |-> b, calls |-> 2,
          threw |-> FALSE,
          context |-> KbText("B", b.len, FALSE),
          citations |-> b.citations]
    ELSE [called |-> TRUE, target |-> kbId, a |-> a, b |-> b, calls |-> 2,
          threw |-> FALSE,
          context |-> IF a.len > 0 THEN KbText("A", a.len, FALSE)
                      ELSE fallbackContext,
          citations |-> a.citations]

\* ------------------------------------------------------------- results
NotReturned == [kind |-> "pending"]
ReturnedUndefined == [kind |-> "undefined"]
Failure(e) == [kind |-> "object", success |-> FALSE, error |-> e]
Success(r) == [kind |-> "object", success |-> TRUE, response |-> r]

Init ==
    /\ pc = "idle"
    /\ userPrompt \in Prompts
    /\ askWindow \in BOOLEAN
    /\ storedKey \in BOOLEAN
    /\ provider \in Providers
    /\ uid = "unread"
    /\ ui = <<>>
    /\ effects = {}
    /\ screenshot = FALSE
    /\ wire = <<>>
    /\ sent = <<>>
    /\ native = <<>>
    /\ queue = <<>>
    /\ emitted = <<>>
    /\ streamState = "none"
    /\ readerCancelled = FALSE
    /\ fullResponse = <<>>
    /\ sessionId = "none"
    /\ db = <<>>
    /\ persistFailed = FALSE
    /\ result = NotReturned
    /\ env = EnvUnset
    /\ opts = NoOpts
    /\ cachedKnowledgeBaseId = None
    /\ memoryManager = NoManager
    /\ client = NoClient
    /\ lastConfig = NoConfig
    /\ shortTerm = <<>>
    /\ now = 0
    /\ appended = <<>>
    /\ context = NoContext
    /\ contextFor = 0
    /\ factoryResult = [called |-> FALSE]
    /\ kbResult = [called |-> FALSE]
    /\ synResult = [called |-> FALSE]
    /\ translation = [called |-> FALSE]
    /\ build = [c \in 1..MaxCalls |-> [pc |-> "start", opts |-> NoOpts]]
    /\ kbConfig = [initialized |-> FALSE, configured |-> None]

streamVars == << wire, sent, native, queue, emitted, streamState, readerCancelled >>
saveVars == << uid, sessionId, db, persistFailed >>
adapterVars == << opts, cachedKnowledgeBaseId, memoryManager, client >>
memVars == << shortTerm, now, appended, context, contextFor >>
factoryVars == << factoryResult >>
kbVars == << kbResult >>
optimizerVars == << synResult >>
translateVars == << translation >>
configVars == << build, kbConfig >>
auxVars == << optimizerVars, translateVars, configVars >>
inputVars == << userPrompt, storedKey, provider, env, lastConfig, memVars,
               factoryVars, auxVars, kbVars >>
envVars == << inputVars, adapterVars >>

\* `return x` / the outer catch
Return(r) == pc' = "returned" /\ result' = r

\* SendMessage with the notification sent before the input is checked
SendMessage_hidesFirst ==
    /\ pc = "idle"
    /\ ui' = IF askWindow THEN Append(ui, HideTextInput) ELSE ui
    /\ IF userPrompt = Undefined \/ Trim(userPrompt) = <<>>
       THEN Return(Failure("Empty message"))
       ELSE pc' = "capture" /\ UNCHANGED result
    /\ UNCHANGED << askWindow, effects, screenshot, fullResponse >>
    /\ UNCHANGED << envVars, streamVars, saveVars >>

\* lines 20-29
SendMessage ==
    /\ pc = "idle"
    /\ IF userPrompt = Undefined \/ Trim(userPrompt) = <<>>
       THEN /\ Return(Failure("Empty message"))
            /\ UNCHANGED ui
       ELSE /\ ui' = IF askWindow THEN Append(ui, HideTextInput) ELSE ui
            /\ pc' = "capture"
            /\ UNCHANGED result
    /\ UNCHANGED << askWindow, effects, screenshot, fullResponse >>
    /\ UNCHANGED << envVars, streamVars, saveVars >>

\* lines 34-35: the capture succeeds, reports failure, or throws
CaptureScreenshot ==
    /\ pc = "capture"
    /\ effects' = effects \cup { "captureScreenshot" }
    /\ \E outcome \in { "ok", "unsuccessful", "throws" } :
         IF outcome = "throws"
         THEN Return(Failure("capture failed")) /\ UNCHANGED screenshot
         ELSE /\ screenshot' = (outcome = "ok")
              /\ pc' = "getkey"
              /\ UNCHANGED result
    /\ UNCHANGED << askWindow, ui, fullResponse >>
    /\ UNCHANGED << envVars, streamVars, saveVars >>

\* lines 42-45
GetStoredApiKey ==
    /\ pc = "getkey"
    /\ effects' = effects \cup { "getStoredApiKey" }
    /\ IF ~storedKey
       THEN Return(Failure("No API key found"))
       ELSE pc' = "create" /\ UNCHANGED result
    /\ UNCHANGED << askWindow, ui, screenshot, fullResponse >>
    /\ UNCHANGED << envVars, streamVars, saveVars >>

\* the factory's provider table
KnownProviders == { "openai", "gemini", "bedrock" }

\* lines 64-101: getStoredProvider, the model options, and the factory's
\* createStreamingLLM, which throws for a provider that is not in its table;
\* the construction of a plain provider's adapter may throw as well
CreateStreamingLLM ==
    /\ pc = "create"
    /\ effects' = effects \cup { "getStoredProvider", "createStreamingLLM" }
    /\ IF provider \notin KnownProviders
       THEN Return(Failure("Streaming LLM not supported for provider"))
       ELSE \E thrown \in BOOLEAN :
              IF thrown /\ provider # "bedrock"
              THEN Return(Failure("adapter construction failed"))
              ELSE pc' = "streamChat" /\ UNCHANGED result
    /\ IF provider = "bedrock"
       THEN CreateBedrockAdapter(modelOptions)
       ELSE UNCHANGED adapterVars
    /\ UNCHANGED << askWindow, ui, screenshot, fullResponse >>
    /\ UNCHANGED << inputVars, streamVars, saveVars >>

\* the pipeline's variables, for the operations that leave it alone
requestVars == << pc, userPrompt, askWindow, storedKey, provider, ui, effects,
                  screenshot, fullResponse, result, streamVars, saveVars >>
pipelineVars == << requestVars, memVars, factoryVars, auxVars, kbVars >>

\* credentialManager.getProviderConfig(p), called by some part of the program
GetProviderConfig ==
    /\ \E p \in { "bedrock", "openai" } : lastConfig' = getProviderConfig(p)
    /\ UNCHANGED << pipelineVars, env, adapterVars >>

\* the factory's createLLM / createStreamingLLM for 'bedrock', called with
\* options of the caller's own (part_000 49-83)
FactoryCreateBedrock ==
    /\ \E o \in CallerOpts : CreateBedrockAdapter(o)
    /\ UNCHANGED << pipelineVars, env, lastConfig >>

\* askService.js 405-428, BedrockService.initialize(options): the manager's
\* configuration is read, options.kbId is stored in the manager, and the
\* adapters are created with the merged configuration
BedrockServiceInitialize ==
    /\ \E options \in CallerOpts :
         LET config == InitializeConfig(options)
             cached == setKnowledgeBaseId(cachedKnowledgeBaseId, options["kbId"])
         IN /\ opts' = options
            /\ client' = BedrockClient(config)
            /\ IF ~memoryManager.created
               THEN /\ memoryManager' =
                         [created |-> TRUE,
                          region |-> Or(BedrockClient(config).region, getAwsRegion),
                          credentials |-> getAwsCredentials,
                          knowledgeBaseId |-> config["kbId"]]
                    /\ cachedKnowledgeBaseId' =
                         setKnowledgeBaseId(cached, config["kbId"])
               ELSE /\ cachedKnowledgeBaseId' = cached
                    /\ UNCHANGED memoryManager
    /\ UNCHANGED << pipelineVars, env, lastConfig >>

\* askService.js 47-62: the texts of the user message sendMessage builds
UserText == << "User Request: " >> \o Trim(userPrompt)
ImageData == << "[Image data]" >>
Entry(content, role) == [role |-> role, content |-> content, timestamp |-> now]

\* the adapter of the request, and the answers the knowledge base gives it
RequestAdapter == 1
RequestAttempts ==
    { KbFailure,
      [ok |-> TRUE, len |-> 0, citations |-> 0],
      [ok |-> TRUE, len |-> kbThreshold + 1, citations |-> 1] }

\* BedrockTranslate with a failed knowledge-base call thrown on to streamChat
BedrockTranslate_kbThrows ==
    LET w1 == addToShortTerm(shortTerm, UserText, "user", now)
        w2 == IF screenshot
              THEN addToShortTerm(w1, ImageData, "vision", now)
              ELSE w1
        rendered == getConversationContext(w2, now)
    IN /\ appended' = appended \o << Entry(UserText, "user") >>
                        \o (IF screenshot THEN << Entry(ImageData, "vision") >>
                            ELSE <<>>)
       /\ shortTerm' = rendered.shortTerm
       /\ context' = rendered.context
       /\ contextFor' = RequestAdapter
       /\ IF memoryManager.knowledgeBaseId # None
          THEN \E a \in RequestAttempts, b \in RequestAttempts :
                 kbResult' =
                   [queryKnowledgeBase(memoryManager.knowledgeBaseId,
                                       TRUE, a, b, EmptyFallback)
                      EXCEPT !.threw = ~a.ok]
          ELSE UNCHANGED kbResult

\* bedrock_claude.js 591-705, streamChat up to the request it sends: the turns
\* of the messages go into the memory window, the knowledge base is queried,
\* and the conversation context is rendered
BedrockTranslate ==
    LET w1 == addToShortTerm(shortTerm, UserText, "user", now)
        w2 == IF screenshot
              THEN addToShortTerm(w1, ImageData, "vision", now)
              ELSE w1
        rendered == getConversationContext(w2, now)
    IN /\ appended' = appended \o << Entry(UserText, "user") >>
                        \o (IF screenshot THEN << Entry(ImageData, "vision") >>
                            ELSE <<>>)
       /\ shortTerm' = rendered.shortTerm
       /\ context' = rendered.context
       /\ contextFor' = RequestAdapter
       /\ IF memoryManager.knowledgeBaseId # None
          THEN \E a \in RequestAttempts, b \in RequestAttempts :
                 kbResult' = queryKnowledgeBase(memoryManager.knowledgeBaseId,
                                                TRUE, a, b, EmptyFallback)
          ELSE UNCHANGED kbResult

\* lines 103-115: streamChat resolves with a response whose body is the stream
\* (or rejects); then the ask window is looked up once more
StreamChat ==
    /\ pc = "streamChat"
    /\ effects' = effects \cup { "streamChat" }
    /\ IF provider = "bedrock"
       THEN BedrockTranslate
       ELSE UNCHANGED << shortTerm, appended, context, contextFor, kbResult >>
    /\ \E thrown \in BOOLEAN :
         IF thrown
         THEN /\ Return(Failure("streamChat failed"))
              /\ UNCHANGED streamVars
         ELSE /\ streamState' = "open"
              /\ IF provider = "bedrock"
                 THEN /\ native' \in BoundedSeq(NativeItems, MaxNative)
                      /\ UNCHANGED << wire, sent >>
                 ELSE /\ sent' \in BoundedSeq(LineKinds, MaxLines)
                      /\ wire' = WireOf(sent')
                      /\ UNCHANGED native
              /\ UNCHANGED << queue, emitted >>
              /\ IF ~askWindow
                 THEN /\ readerCancelled' = TRUE
                      /\ Return(ReturnedUndefined)
                 ELSE /\ pc' = "read"
                      /\ UNCHANGED << readerCancelled, result >>
    /\ UNCHANGED << askWindow, ui, screenshot, fullResponse >>
    /\ UNCHANGED << userPrompt, storedKey, provider, env, lastConfig, now,
                    factoryVars, auxVars, adapterVars, saveVars >>

\* ProcessChunk going on with the read loop after [DONE]
ProcessChunk_pastDone(chunk) ==
    LET st == HandleLines(Lines(chunk),
                          [full |-> fullResponse, out |-> ui, done |-> FALSE])
    IN /\ fullResponse' = st.full
       /\ ui' = st.out
       /\ pc' = "read"
       /\ UNCHANGED result

\* lines 121-169 for one value read from the stream
ProcessChunk(chunk) ==
    LET st == HandleLines(Lines(chunk),
                          [full |-> fullResponse, out |-> ui, done |-> FALSE])
    IN /\ fullResponse' = st.full
       /\ ui' = st.out
       /\ pc' = IF st.done THEN "saveSession" ELSE "read"
       /\ UNCHANGED result

\* line 118, plain provider: the transport hands over the next piece of the
\* body, cut anywhere
ReadPlain ==
    /\ pc = "read" /\ provider # "bedrock"
    /\ wire # <<>>
    /\ \E k \in 1..Len(wire) :
         /\ ProcessChunk(SubSeq(wire, 1, k))
         /\ wire' = SubSeq(wire, k + 1, Len(wire))
    /\ UNCHANGED << askWindow, effects, screenshot, sent, native, queue,
                    emitted, streamState, readerCancelled >>
    /\ UNCHANGED << envVars, saveVars >>

\* line 118-119, plain provider: the body is exhausted; the loop is left and
\* sendMessage runs off its end
ReadPlainDone ==
    /\ pc = "read" /\ provider # "bedrock"
    /\ wire = <<>>
    /\ streamState' = "closed"
    /\ Return(ReturnedUndefined)
    /\ UNCHANGED << askWindow, ui, effects, screenshot, fullResponse, wire,
                    sent, native, queue, emitted, readerCancelled >>
    /\ UNCHANGED << envVars, saveVars >>

\* ReadPlainError with a failed read taken for the end of the stream
ReadPlainError_silent ==
    /\ pc = "read" /\ provider # "bedrock"
    /\ streamState' = "errored"
    /\ Return(ReturnedUndefined)
    /\ UNCHANGED << askWindow, ui, effects, screenshot, fullResponse, wire,
                    sent, native, queue, emitted, readerCancelled >>
    /\ UNCHANGED << envVars, saveVars >>

\* line 118, plain provider: the read rejects (transport error)
ReadPlainError ==
    /\ pc = "read" /\ provider # "bedrock"
    /\ streamState' = "errored"
    /\ Return(Failure("read failed"))
    /\ UNCHANGED << askWindow, ui, effects, screenshot, fullResponse, wire,
                    sent, native, queue, emitted, readerCancelled >>
    /\ UNCHANGED << envVars, saveVars >>

\* bedrock_claude.js 738-780: one iteration of the for-await loop
BedrockPump ==
    /\ provider = "bedrock" /\ streamState = "open"
    /\ native # <<>>
    /\ native' = Tail(native)
    /\ queue' = IF readerCancelled THEN queue
                ELSE queue \o EnqueuedFor(Head(native))
    /\ emitted' = IF readerCancelled THEN emitted
                  ELSE emitted \o EnqueuedFor(Head(native))
    /\ UNCHANGED << pc, askWindow, ui, effects, screenshot, wire, sent,
                    streamState, readerCancelled, fullResponse, result >>
    /\ UNCHANGED << envVars, saveVars >>

\* bedrock_claude.js 735, 768: the pump's fullResponse, the cleaned texts of
\* the chunks it has enqueued
pumpedText == Flatten([i \in 1..Len(emitted) |-> EventToken(Tail(emitted[i]))])

\* BedrockClose without the append to the memory window
BedrockClose_noAppend ==
    /\ provider = "bedrock" /\ streamState = "open"
    /\ native = <<>>
    /\ streamState' = "closed"
    /\ UNCHANGED << shortTerm, appended >>
    /\ UNCHANGED << pc, askWindow, ui, effects, screenshot, wire, sent, native,
                    queue, emitted, readerCancelled, fullResponse, result >>
    /\ UNCHANGED << userPrompt, storedKey, provider, env, lastConfig, now,
                    context, contextFor, factoryVars, auxVars, kbVars, adapterVars,
                    saveVars >>

\* bedrock_claude.js 782-790: the native stream is exhausted; a response that
\* is not empty goes into the memory window, and the stream is closed
BedrockClose ==
    /\ provider = "bedrock" /\ streamState = "open"
    /\ native = <<>>
    /\ streamState' = "closed"
    /\ IF pumpedText # <<>>
       THEN /\ shortTerm' = addToShortTerm(shortTerm, pumpedText, "assistant", now)
            /\ appended' = Append(appended, Entry(pumpedText, "assistant"))
       ELSE UNCHANGED << shortTerm, appended >>
    /\ UNCHANGED << pc, askWindow, ui, effects, screenshot, wire, sent, native,
                    queue, emitted, readerCancelled, fullResponse, result >>
    /\ UNCHANGED << userPrompt, storedKey, provider, env, lastConfig, now,
                    context, contextFor, factoryVars, auxVars, kbVars, adapterVars,
                    saveVars >>

\* BedrockError closing the stream as if the response had ended
BedrockError_closes ==
    /\ provider = "bedrock" /\ streamState = "open"
    /\ streamState' = "closed"
    /\ UNCHANGED << pc, askWindow, ui, effects, screenshot, wire, sent, native,
                    queue, emitted, readerCancelled, fullResponse, result >>
    /\ UNCHANGED << envVars, saveVars >>

\* bedrock_claude.js 791-794: the native stream throws; controller.error
\* drops what is queued
BedrockError ==
    /\ provider = "bedrock" /\ streamState = "open"
    /\ streamState' = "errored"
    /\ queue' = <<>>
    /\ UNCHANGED << pc, askWindow, ui, effects, screenshot, wire, sent, native,
                    emitted, readerCancelled, fullResponse, result >>
    /\ UNCHANGED << envVars, saveVars >>

\* line 118, Bedrock: one read yields one enqueued chunk
ReadBedrock ==
    /\ pc = "read" /\ provider = "bedrock"
    /\ queue # <<>>
    /\ ProcessChunk(Head(queue))
    /\ queue' = Tail(queue)
    /\ UNCHANGED << askWindow, effects, screenshot, wire, sent, native,
                    emitted, streamState, readerCancelled >>
    /\ UNCHANGED << envVars, saveVars >>

\* line 118-119, Bedrock: the stream is closed and drained, or errored
ReadBedrockEnd ==
    /\ pc = "read" /\ provider = "bedrock"
    /\ queue = <<>>
    /\ streamState \in { "closed", "errored" }
    /\ Return(IF streamState = "closed" THEN ReturnedUndefined
              ELSE Failure("read failed"))
    /\ UNCHANGED << askWindow, ui, effects, screenshot, fullResponse >>
    /\ UNCHANGED << envVars, streamVars, saveVars >>

\* lines 131-134 and the catch of line 138
SaveSession ==
    /\ pc = "saveSession"
    /\ uid' \in { "none", "u1" }
    /\ IF uid' = "none"
       THEN /\ persistFailed' = TRUE
            /\ Return(Success(fullResponse))
            /\ UNCHANGED << sessionId, effects >>
       ELSE /\ effects' = effects \cup { "getOrCreateActive" }
            /\ \E thrown \in BOOLEAN :
                 IF thrown
                 THEN /\ persistFailed' = TRUE
                      /\ Return(Success(fullResponse))
                      /\ UNCHANGED sessionId
                 ELSE /\ sessionId' \in SessionIds
                      /\ pc' = "saveUser"
                      /\ UNCHANGED << persistFailed, result >>
    /\ UNCHANGED << askWindow, ui, screenshot, fullResponse, db >>
    /\ UNCHANGED << envVars, streamVars >>

Message(role, content) ==
    [sessionId |-> sessionId, role |-> role, content |-> content]

\* SaveUser with the two writes in the other order
SaveUser_assistantFirst ==
    /\ pc = "saveUser"
    /\ \E thrown \in BOOLEAN :
         IF thrown
         THEN /\ persistFailed' = TRUE
              /\ Return(Success(fullResponse))
              /\ UNCHANGED db
         ELSE /\ db' = Append(db, Message("assistant", fullResponse))
              /\ pc' = "saveAssistant"
              /\ UNCHANGED << persistFailed, result >>
    /\ UNCHANGED << askWindow, ui, effects, screenshot, fullResponse, uid,
                    sessionId >>
    /\ UNCHANGED << envVars, streamVars >>

\* line 135
SaveUser ==
    /\ pc = "saveUser"
    /\ \E thrown \in BOOLEAN :
         IF thrown
         THEN /\ persistFailed' = TRUE
              /\ Return(Success(fullResponse))
              /\ UNCHANGED db
         ELSE /\ db' = Append(db, Message("user", Trim(userPrompt)))
              /\ pc' = "saveAssistant"
              /\ UNCHANGED << persistFailed, result >>
    /\ UNCHANGED << askWindow, ui, effects, screenshot, fullResponse, uid,
                    sessionId >>
    /\ UNCHANGED << envVars, streamVars >>

\* SaveAssistant without the catch around the save: a failed write reaches
\* the outer catch
SaveAssistant_uncaught ==
    /\ pc = "saveAssistant"
    /\ \E thrown \in BOOLEAN :
         IF thrown
         THEN /\ persistFailed' = TRUE
              /\ Return(Failure("addAiMessage failed"))
              /\ UNCHANGED db
         ELSE /\ db' = Append(db, Message("assistant", fullResponse))
              /\ Return(Success(fullResponse))
              /\ UNCHANGED persistFailed
    /\ UNCHANGED << askWindow, ui, effects, screenshot, fullResponse, uid,
                    sessionId >>
    /\ UNCHANGED << envVars, streamVars >>

\* lines 136-142
SaveAssistant ==
    /\ pc = "saveAssistant"
    /\ \E thrown \in BOOLEAN :
         IF thrown
         THEN persistFailed' = TRUE /\ UNCHANGED db
         ELSE /\ db' = Append(db, Message("assistant", fullResponse))
              /\ UNCHANGED persistFailed
    /\ Return(Success(fullResponse))
    /\ UNCHANGED << askWindow, ui, effects, screenshot, fullResponse, uid,
                    sessionId >>
    /\ UNCHANGED << envVars, streamVars >>

\* the user closes the ask window while the request is being prepared
CloseWindow ==
    /\ pc \in { "capture", "getkey", "create", "streamChat" }
    /\ askWindow
    /\ askWindow' = FALSE
    /\ UNCHANGED << pc, ui, effects, screenshot, fullResponse, result >>
    /\ UNCHANGED << envVars, streamVars, saveVars >>

Next ==
    \/ SendMessage
    \/ CaptureScreenshot
    \/ GetStoredApiKey
    \/ CreateStreamingLLM
    \/ StreamChat
    \/ ReadPlain
    \/ ReadPlainDone
    \/ ReadPlainError
    \/ BedrockPump
    \/ BedrockClose
    \/ BedrockError
    \/ ReadBedrock
    \/ ReadBedrockEnd
    \/ SaveSession
    \/ SaveUser
    \/ SaveAssistant
    \/ CloseWindow

Spec == Init /\ [][Next]_vars

\* ------------------------------------------- credentials and adapters
\* a request up to the creation of its adapter, next to the other users of
\* the credential manager, under every environment and storage
InitCred ==
    /\ pc = "idle"
    /\ userPrompt = <<"sp", "a", "sp">>
    /\ askWindow = TRUE
    /\ storedKey \in BOOLEAN
    /\ provider \in { "openai", "bedrock" }
    /\ uid = "unread"
    /\ ui = <<>>
    /\ effects = {}
    /\ screenshot = FALSE
    /\ wire = <<>>
    /\ sent = <<>>
    /\ native = <<>>
    /\ queue = <<>>
    /\ emitted = <<>>
    /\ streamState = "none"
    /\ readerCancelled = FALSE
    /\ fullResponse = <<>>
    /\ sessionId = "none"
    /\ db = <<>>
    /\ persistFailed = FALSE
    /\ result = NotReturned
    /\ env \in Envs
    /\ opts = NoOpts
    /\ cachedKnowledgeBaseId = None
    /\ memoryManager = NoManager
    /\ client = NoClient
    /\ lastConfig = NoConfig
    /\ shortTerm = <<>>
    /\ now = 0
    /\ appended = <<>>
    /\ context = NoContext
    /\ contextFor = 0
    /\ factoryResult = [called |-> FALSE]
    /\ kbResult = [called |-> FALSE]
    /\ synResult = [called |-> FALSE]
    /\ translation = [called |-> FALSE]
    /\ build = [c \in 1..MaxCalls |-> [pc |-> "start", opts |-> NoOpts]]
    /\ kbConfig = [initialized |-> FALSE, configured |-> None]

NextCred ==
    \/ SendMessage
    \/ CaptureScreenshot
    \/ GetStoredApiKey
    \/ CreateStreamingLLM
    \/ GetProviderConfig
    \/ FactoryCreateBedrock
    \/ BedrockServiceInitialize

SpecCred == InitCred /\ [][NextCred]_vars

\* ------------------------------------------------------- the factory
\* part_000 16-83: createSTT, createLLM, createStreamingLLM
Modes == { "stt", "llm", "streamingLlm" }
ModeLabel(mode) ==
    IF mode = "stt" THEN "STT"
    ELSE IF mode = "llm" THEN "LLM"
    ELSE "Streaming LLM"

\* the provider names callers pass
FactoryNames == KnownProviders \cup { "other" }

\* the create functions a provider's module exports: bedrock_claude.js
\* 824-828 exports all three; the modules of the plain providers export all
\* of them or no createSTT
PlainExports == { Modes, { "llm", "streamingLlm" } }
Exports(p, plain) ==
    IF p = "bedrock" THEN Modes
    ELSE IF p \in KnownProviders THEN plain
    ELSE {}

NoError == [name |-> None]
\* new Error(`${label} not supported for provider: ${provider}`)
NotSupported(mode, p) ==
    [name |-> "Error",
     message |-> << ModeLabel(mode) \o " not supported for provider: ", p >>]
ConstructionFailed ==
    [name |-> "Error", message |-> << "adapter construction failed" >>]

\* part_000 18-36: createSTT's substitution for Bedrock
SttProvider(p) == IF p = "bedrock" THEN "openai" ELSE p
SttOpts(p, o) ==
    IF p = "bedrock" /\ env["OPENAI_API_KEY"] # None
    THEN [o EXCEPT !["apiKey"] = TrimId(env["OPENAI_API_KEY"])]
    ELSE o

\* a call of the factory: the mode's check and the provider's create function
FactoryCall ==
    /\ \E mode \in Modes, p \in FactoryNames, o \in CallerOpts,
          plain \in PlainExports, thrown \in BOOLEAN :
         LET q == IF mode = "stt" THEN SttProvider(p) ELSE p
             given == IF mode = "stt" THEN SttOpts(p, o) ELSE o
             supported == mode \in Exports(q, plain)
             failed == thrown /\ q # "bedrock"
         IN /\ factoryResult' =
                 [called |-> TRUE, mode |-> mode, requested |-> p,
                  provider |-> q, known |-> q \in KnownProviders,
                  passed |-> supported,
                  handed |-> IF supported THEN given ELSE NoOpts,
                  error |-> IF ~supported THEN NotSupported(mode, q)
                            ELSE IF failed THEN ConstructionFailed
                            ELSE NoError,
                  adapter |-> supported /\ ~failed]
            /\ IF supported /\ q = "bedrock"
               THEN CreateBedrockAdapter(given)
               ELSE UNCHANGED adapterVars
    /\ UNCHANGED << requestVars, memVars, kbVars, auxVars, env, lastConfig >>

\* the factory under calls of every mode, with and without the
\* environment's OPENAI_API_KEY
InitFactory ==
    /\ InitCred
    /\ storedKey
    /\ provider = "bedrock"
    /\ env \in { EnvUnset,
                 [EnvUnset EXCEPT !["OPENAI_API_KEY"] = EnvValue("OPENAI_API_KEY")] }

NextFactory == FactoryCall

SpecFactory == InitFactory /\ [][NextFactory]_vars

\* ---------------------------------------------------- the memory window
\* the memory manager's window under appends at any times of the clock
notMemVars == << requestVars, env, lastConfig, adapterVars, factoryVars, auxVars,
                 kbVars >>

\* bedrock_claude.js 55-70: some caller appends the next entry
AddToShortTerm ==
    /\ Len(appended) < MaxAppends
    /\ LET k == Len(appended) + 1 IN
         /\ shortTerm' = addToShortTerm(shortTerm, TextOf(k), RoleOf(k), now)
         /\ appended' = Append(appended, [role |-> RoleOf(k), content |-> TextOf(k),
                                          timestamp |-> now])
    /\ UNCHANGED << now, context, contextFor, notMemVars >>

\* time passes
Tick ==
    /\ now < MaxTicks * ClockStep
    /\ now' = now + ClockStep
    /\ UNCHANGED << shortTerm, appended, context, contextFor, notMemVars >>

NextMem ==
    \/ AddToShortTerm
    \/ Tick

SpecMem == Init /\ [][NextMem]_vars

\* ------------------------------------------- the conversation context
\* bedrock_claude.js 72-91, called by adapter a (lines 333, 498, 702)
GetConversationContext ==
    /\ \E a \in Adapters :
         /\ shortTerm' = getConversationContext(shortTerm, now).shortTerm
         /\ context' = getConversationContext(shortTerm, now).context
         /\ contextFor' = a
    /\ UNCHANGED << now, appended, notMemVars >>

\* the window under appends and renderings of the adapters at any times
InitCtx ==
    /\ Init
    /\ userPrompt = <<"sp", "a", "sp">>
    /\ storedKey
    /\ provider = "bedrock"

NextCtx ==
    \/ (Len(appended) < MaxRendered /\ AddToShortTerm)
    \/ Tick
    \/ GetConversationContext

SpecCtx == InitCtx /\ [][NextCtx]_vars

\* ------------------------------------------------- knowledge-base query
\* QueryKnowledgeBase issuing the second attempt whatever the first answered
QueryKnowledgeBase_secondAlways ==
    /\ \E kbId \in { None, DefaultKb, PaddedKb }, hasClient \in BOOLEAN,
          a \in KbAttempts, b \in KbAttempts :
         LET r == queryKnowledgeBase(kbId, hasClient, a, b, EmptyFallback)
         IN kbResult' = IF r.calls = 1 /\ a.ok
                        THEN [r EXCEPT !.calls = 2, !.b = b]
                        ELSE r
    /\ UNCHANGED << requestVars, memVars, factoryVars, auxVars, env, lastConfig,
                    adapterVars >>

\* queryKnowledgeBase called on a memory manager with or without a
\* knowledge-base id and a retrieval client, under every pair of answers
QueryKnowledgeBase ==
    /\ \E kbId \in { None, DefaultKb, PaddedKb }, hasClient \in BOOLEAN,
          a \in KbAttempts, b \in KbAttempts :
         kbResult' = queryKnowledgeBase(kbId, hasClient, a, b, EmptyFallback)
    /\ UNCHANGED << requestVars, memVars, factoryVars, auxVars, env, lastConfig,
                    adapterVars >>

NextKb == QueryKnowledgeBase

SpecKb == InitCtx /\ [][NextKb]_vars

\* ------------------------------------------------- the query optimizer
\* askService.js 319-340: the keys of synonymMap in the order of its entries
SynonymKeys ==
    << "information", "important", "issue", "create",
       "change", "report", "result", "process", "increase",
       "decrease", "feature", "error", "user", "data",
       "interface", "question", "example", "explain",
       "help", "project" >>

synonymMap ==
    [ information |-> << "data", "details", "facts", "knowledge" >>,
      important |-> << "significant", "crucial", "essential", "key" >>,
      issue |-> << "problem", "concern", "matter", "trouble" >>,
      create |-> << "build", "develop", "make", "produce" >>,
      change |-> << "modify", "alter", "adjust", "transform" >>,
      report |-> << "document", "record", "account", "analysis" >>,
      result |-> << "outcome", "effect", "consequence", "output" >>,
      process |-> << "procedure", "method", "system", "approach" >>,
      increase |-> << "grow", "rise", "expand", "improve" >>,
      decrease |-> << "reduce", "decline", "drop", "lower" >>,
      feature |-> << "function", "capability", "characteristic", "aspect" >>,
      error |-> << "mistake", "bug", "fault", "defect" >>,
      user |-> << "customer", "client", "person", "individual" >>,
      data |-> << "information", "statistics", "facts", "figures" >>,
      interface |-> << "ui", "display", "screen", "layout" >>,
      question |-> << "query", "inquiry", "request", "prompt" >>,
      example |-> << "instance", "case", "sample", "illustration" >>,
      explain |-> << "describe", "clarify", "elaborate", "detail" >>,
      help |-> << "assist", "support", "aid", "guidance" >>,
      project |-> << "task", "assignment", "undertaking", "venture" >> ]

\* askService.js 355: results.slice(0, 3)
synonymCap == 3

\* a key term, by what the table makes of it: the key it is equal to, or
\* the keys that contain it or that it contains
NoMatch == {}
KeyTerms ==
    { [exact |-> k, matched |-> NoMatch] : k \in Range(SynonymKeys) }
    \cup { [exact |-> None, matched |-> ks] :
             ks \in { m \in SUBSET Range(SynonymKeys) : Cardinality(m) <= MaxMatched } }

Take(q, n) == SubSeq(q, 1, IF Len(q) < n THEN Len(q) ELSE n)

\* the synonyms of the matched keys, in the order of the table
PartialResults(matched) ==
    Flatten([i \in 1..Len(SynonymKeys) |->
               IF SynonymKeys[i] \in matched THEN synonymMap[SynonymKeys[i]]
               ELSE <<>>])

\* askService.js 316-356
findSynonyms(term) ==
    IF term.exact # None THEN synonymMap[term.exact]
    ELSE Take(PartialResults(term.matched), synonymCap)

\* askService.js 257-260: what expandQueryWithSynonyms writes for one key
\* term, the term and in brackets the synonyms found for it
Expansion(term) ==
    [called |-> TRUE, term |-> term, listed |-> findSynonyms(term)]

\* askService.js 244-267: expandQueryWithSynonyms expands a key term
ExpandQueryWithSynonyms ==
    /\ \E term \in KeyTerms : synResult' = Expansion(term)
    /\ UNCHANGED << requestVars, memVars, factoryVars, kbVars, env, lastConfig,
                    adapterVars, translateVars, configVars >>

NextSyn == ExpandQueryWithSynonyms

SpecSyn == InitCtx /\ [][NextSyn]_vars

\* ------------------------------------------- streamChat on any messages
\* the messages a caller of streamChat passes: a system, user or assistant
\* turn whose content is a string or a list of parts
TurnRoles == { "system", "user", "assistant" }
TextPart(t) == [type |-> "text", text |-> t]
ImagePart == [type |-> "image_url", text |-> <<>>]
StringContent(t) == [isString |-> TRUE, parts |-> << TextPart(t) >>]
PartsContent(ps) == [isString |-> FALSE, parts |-> ps]
TurnContents == { StringContent(<<"a">>),
                  PartsContent(<< TextPart(<<"b">>) >>),
                  PartsContent(<< TextPart(<<"b">>), ImagePart >>) }
Turns == { [role |-> r, content |-> c] : r \in TurnRoles, c \in TurnContents }

\* bedrock_claude.js 604-619: what the map appends for one part of a user
\* turn
PartAppends(c) ==
    IF c.type = "text" THEN << [content |-> c.text, role |-> "user"] >>
    ELSE IF c.type = "image_url" THEN << [content |-> ImageData, role |-> "vision"] >>
    ELSE <<>>

\* bedrock_claude.js 597-635: what the translation of one message appends
TurnAppends(m) ==
    IF m.role = "system" THEN <<>>
    ELSE IF m.role = "user" /\ ~m.content.isString
    THEN Flatten([i \in 1..Len(m.content.parts) |-> PartAppends(m.content.parts[i])])
    ELSE IF m.content.isString
    THEN << [content |-> m.content.parts[1].text, role |-> m.role] >>
    ELSE <<>>

TranslationAppends(msgs) == Flatten([i \in 1..Len(msgs) |-> TurnAppends(msgs[i])])

\* the window after the appends es, made in turn at time t
RECURSIVE AppendAll(_, _, _)
AppendAll(window, es, t) ==
    IF es = <<>> THEN window
    ELSE AppendAll(addToShortTerm(window, Head(es).content, Head(es).role, t),
                   Tail(es), t)

\* bedrock_claude.js 638-651: the text of the last user message
UserTurns(msgs) == SelectSeq(msgs, LAMBDA m : m.role = "user")
TextsOf(m) ==
    LET texts == SelectSeq(m.content.parts, LAMBDA c : c.type = "text")
    IN Flatten([i \in 1..Len(texts) |-> texts[i].text])
textContent(msgs) ==
    IF UserTurns(msgs) = <<>> THEN <<>>
    ELSE TextsOf(UserTurns(msgs)[Len(UserTurns(msgs))])

\* the native streams the provider answers these calls with
TranslateNatives == { <<>>, << [kind |-> "delta", text |-> <<"a">>] >> }

\* bedrock_claude.js 591-812: streamChat(messages) of a Bedrock adapter, up to
\* the response it returns
StreamChatMessages ==
    /\ provider = "bedrock" /\ memoryManager.created
    /\ ~translation.called /\ streamState = "none"
    /\ \E msgs \in BoundedSeq(Turns, MaxMessages) :
         LET es == TranslationAppends(msgs)
             rendered == getConversationContext(AppendAll(shortTerm, es, now), now)
         IN /\ translation' = [called |-> TRUE, messages |-> msgs,
                                 before |-> Len(appended)]
            /\ appended' = appended \o
                 [i \in 1..Len(es) |-> Entry(es[i].content, es[i].role)]
            /\ shortTerm' = rendered.shortTerm
            /\ context' = rendered.context
            /\ contextFor' = RequestAdapter
            /\ IF textContent(msgs) # <<>> /\ memoryManager.knowledgeBaseId # None
               THEN \E a \in RequestAttempts, b \in RequestAttempts :
                      kbResult' = queryKnowledgeBase(memoryManager.knowledgeBaseId,
                                                     TRUE, a, b, EmptyFallback)
               ELSE UNCHANGED kbResult
    /\ \E thrown \in BOOLEAN :
         IF thrown
         THEN UNCHANGED << streamState, native >>
         ELSE streamState' = "open" /\ native' \in TranslateNatives
    /\ UNCHANGED << pc, userPrompt, askWindow, storedKey, provider, ui, effects,
                    screenshot, fullResponse, result, saveVars, wire, sent,
                    queue, emitted, readerCancelled, now, env, lastConfig,
                    adapterVars, factoryVars, optimizerVars, configVars >>

InitTranslate == InitCtx

NextTranslate ==
    \/ (~translation.called /\ FactoryCreateBedrock)
    \/ StreamChatMessages
    \/ BedrockPump
    \/ BedrockClose
    \/ BedrockError

SpecTranslate == InitTranslate /\ [][NextTranslate]_vars

\* --------------------------------- adapters constructed concurrently
\* createLLM and createStreamingLLM are async: a call runs to its next await
\* and the other calls run in between.  The steps of a call c:
\*   "start"       not called yet
\*   "credentials" at `await credentialManager.getAwsCredentials()`
\*   "setup"       at `await memoryManager.setupBedrockClient(config)`
\*   "returned"    the adapter was returned to the caller
Calls == 1..MaxCalls

\* bedrock_claude.js 32-38: the manager as its constructor leaves it
NoCredentials == [accessKeyId |-> None, secretAccessKey |-> None,
                  sessionToken |-> None]
NewManager == [created |-> TRUE, region |-> None, credentials |-> NoCredentials,
               knowledgeBaseId |-> None]

\* this.bedrockAgentRuntime is set
HasRetrievalClient(m) == m.created /\ m.region # None

\* bedrock_claude.js 242-244, 543-545: the call is made and waits for the
\* credentials
BeginCreate(c) ==
    /\ build[c].pc = "start"
    /\ \E o \in CallerOpts :
         build' = [build EXCEPT ![c] = [pc |-> "credentials", opts |-> o]]
    /\ UNCHANGED << adapterVars, kbVars >>

\* bedrock_claude.js 247-275, 548-580: the client is built; the first call to
\* come here creates the manager and waits for its setup, any other call
\* returns its adapter
ResumeCreate(c) ==
    /\ build[c].pc = "credentials"
    /\ opts' = build[c].opts
    /\ client' = BedrockClient(build[c].opts)
    /\ IF ~memoryManager.created
       THEN /\ memoryManager' = NewManager
            /\ build' = [build EXCEPT ![c].pc = "setup"]
       ELSE /\ build' = [build EXCEPT ![c].pc = "returned"]
            /\ UNCHANGED memoryManager
    /\ UNCHANGED << cachedKnowledgeBaseId, kbVars >>

\* bedrock_claude.js 40-53, 277-283, 582-588: the setup is done, the
\* knowledge-base id is stored, and the adapter is returned
FinishSetup(c) ==
    /\ build[c].pc = "setup"
    /\ LET o == build[c].opts
           kbId == Or(o["kbId"], getKnowledgeBaseId)
       IN /\ memoryManager' =
               [created |-> TRUE,
                region |-> Or(BedrockClient(o).region, getAwsRegion),
                credentials |-> getAwsCredentials,
                knowledgeBaseId |-> kbId]
          /\ cachedKnowledgeBaseId' = setKnowledgeBaseId(cachedKnowledgeBaseId, kbId)
    /\ build' = [build EXCEPT ![c].pc = "returned"]
    /\ UNCHANGED << opts, client, kbVars >>

\* bedrock_claude.js 326-330, 656-660: a returned adapter handles a request
\* and queries retrieval if the manager has a knowledge-base id
AdapterQueries(c) ==
    /\ build[c].pc = "returned"
    /\ IF memoryManager.knowledgeBaseId # None
       THEN \E a \in RequestAttempts, b \in RequestAttempts :
              kbResult' = queryKnowledgeBase(memoryManager.knowledgeBaseId,
                                             HasRetrievalClient(memoryManager),
                                             a, b, EmptyFallback)
       ELSE kbResult' = [called |-> FALSE, skippedBy |-> c]
    /\ UNCHANGED << adapterVars, build >>

NextBuild ==
    /\ \E c \in Calls :
         \/ BeginCreate(c)
         \/ ResumeCreate(c)
         \/ FinishSetup(c)
         \/ AdapterQueries(c)
    /\ UNCHANGED << requestVars, memVars, factoryVars, optimizerVars,
                    translateVars, kbConfig, env, lastConfig >>

SpecBuild == InitCtx /\ [][NextBuild]_vars

\* --------------------------------------- configuring the knowledge base
\* the knowledge-base ids a caller configures
KbChoices == { OptValue("kbId"), PaddedKb }

\* askService.js 405-428, BedrockService.initialize(options), with the
\* adapters it asks the factory for constructed: cached is the credential
\* manager's id when the call is made.  The manager's configuration is read
\* first (407), options.kbId is stored after it (413-415)
InitializeWith(options, cached) ==
    LET kbId == IF cached # None THEN cached
                ELSE Or(env["AWS_KNOWLEDGE_BASE_ID"], DefaultKb)
        stored == setKnowledgeBaseId(cached, options["kbId"])
    IN /\ opts' = options
       /\ client' = BedrockClient(InitializeConfig(options))
       /\ IF ~memoryManager.created
          THEN /\ memoryManager' =
                    [created |-> TRUE,
                     region |-> Or(BedrockClient(InitializeConfig(options)).region,
                                   getAwsRegion),
                     credentials |-> getAwsCredentials,
                     knowledgeBaseId |-> kbId]
               /\ cachedKnowledgeBaseId' = setKnowledgeBaseId(stored, kbId)
          ELSE /\ cachedKnowledgeBaseId' = stored
               /\ UNCHANGED memoryManager

\* BedrockService.initialize called by the application, with options that
\* name no knowledge base
ServiceInitialize ==
    /\ \E options \in { o \in CallerOpts : o["kbId"] = None } :
         InitializeWith(options, cachedKnowledgeBaseId)
    /\ kbConfig' = [kbConfig EXCEPT !.initialized = TRUE]
    /\ UNCHANGED kbVars

\* askService.js 487-496, BedrockService.setKnowledgeBase(kbId): the id goes
\* to the credential manager, and an initialised service initialises again
SetKnowledgeBase ==
    /\ \E k \in KbChoices :
         /\ kbConfig' = [kbConfig EXCEPT !.configured = k]
         /\ IF kbConfig.initialized
            THEN InitializeWith(NoOpts, setKnowledgeBaseId(cachedKnowledgeBaseId, k))
            ELSE /\ cachedKnowledgeBaseId' =
                      setKnowledgeBaseId(cachedKnowledgeBaseId, k)
                 /\ UNCHANGED << opts, client, memoryManager >>
    /\ UNCHANGED kbVars

\* bedrock_claude.js 543-588: an adapter is constructed with option kbId
ConstructWithKb ==
    /\ \E k \in KbChoices :
         /\ CreateBedrockAdapter([NoOpts EXCEPT !["kbId"] = k])
         /\ kbConfig' = [kbConfig EXCEPT !.configured = k]
    /\ UNCHANGED kbVars

\* bedrock_claude.js 656-660: a request queries retrieval
RetrievalQuery ==
    /\ memoryManager.created
    /\ memoryManager.knowledgeBaseId # None
    /\ \E a \in RequestAttempts, b \in RequestAttempts :
         kbResult' = queryKnowledgeBase(memoryManager.knowledgeBaseId, TRUE,
                                        a, b, EmptyFallback)
    /\ UNCHANGED << adapterVars, kbConfig >>

NextKbId ==
    /\ \/ ServiceInitialize
       \/ SetKnowledgeBase
       \/ ConstructWithKb
       \/ RetrievalQuery
    /\ UNCHANGED << requestVars, memVars, factoryVars, optimizerVars,
                    translateVars, build, env, lastConfig >>

SpecKbId == InitCtx /\ [][NextKbId]_vars

\* ================================================================ claims
IsPrefix(p, q) == Len(p) <= Len(q) /\ SubSeq(q, 1, Len(p)) = p

\* the tokens of the chunk notifications sent to the UI, in order
ChunkTokens(out) ==
    LET cs == SelectSeq(out, LAMBDA n : n.type = "ask-response-chunk")
    IN [i \in 1..Len(cs) |-> cs[i].token]

EndCount(out) == Len(SelectSeq(out, LAMBDA n : n.type = "ask-response-stream-end"))

NonBlankPrompt == userPrompt # Undefined /\ Trim(userPrompt) # <<>>

IsResult(r) ==
    /\ r.kind = "object"
    /\ "success" \in DOMAIN r
    /\ r.success \in BOOLEAN
    /\ IF r.success THEN "response" \in DOMAIN r ELSE "error" \in DOMAIN r

Failed(r) == r.kind = "object" /\ ~r.success
Succeeded(r) == r.kind = "object" /\ r.success

\* C1: every sendMessage call with non-blank input ends either with
\* stream-end sent to the UI or with an error given to the caller.
Claim_C1 ==
    (pc = "returned" /\ NonBlankPrompt) =>
        (EndCount(ui) = 1 \/ Failed(result))

\* C2: whatever path sendMessage takes, what it returns is a Result object
\* with a boolean success, and response on success, error on failure.
Claim_C2 == pc = "returned" => IsResult(result)

\* C3: the stream of the Bedrock adapter consists of 'data: <json>' events
\* only and, when it completes normally, its last event is 'data: [DONE]'.
DoneChunk == DoneLine \o <<"NL", "NL">>
IsTokenChunk(c) ==
    /\ Len(c) >= 5
    /\ SubSeq(c, Len(c) - 1, Len(c)) = <<"NL", "NL">>
    /\ StartsWithData(c)
    /\ IsEvent(SubSeq(c, 2, Len(c) - 2))

Claim_C3 ==
    (provider = "bedrock" /\ streamState = "closed") =>
        /\ emitted # <<>>
        /\ emitted[Len(emitted)] = DoneChunk
        /\ \A i \in 1..(Len(emitted) - 1) : IsTokenChunk(emitted[i])

\* C4: a request whose provider stream completes normally with at least one
\* token, with the user logged in and persistence working, sends the UI the
\* chunks followed by exactly one stream-end and persists exactly two
\* messages under one session id, roles user and assistant.
HasToken(chunks) ==
    \E i \in 1..Len(chunks) :
        IsTokenChunk(chunks[i]) /\ EventToken(SubSeq(chunks[i], 2, Len(chunks[i]) - 2)) # <<>>

CompletedNormally ==
    IF provider = "bedrock"
    THEN streamState = "closed" /\ queue = <<>> /\ HasToken(emitted)
    ELSE /\ streamState # "errored"
         /\ sent # <<>>
         /\ sent[Len(sent)] = DoneLine
         /\ \E i \in 1..(Len(sent) - 1) : sent[i] \in { TokLine(<<"a">>), TokLine(<<"b">>) }

Claim_C4 ==
    (pc = "returned" /\ streamState # "none" /\ ~readerCancelled
        /\ CompletedNormally /\ ~persistFailed) =>
        /\ ui # <<>>
        /\ ui[Len(ui)] = StreamEnd
        /\ EndCount(ui) = 1
        /\ ChunkTokens(ui) # <<>>
        /\ Len(db) = 2
        /\ db[1].role = "user"
        /\ db[2].role = "assistant"
        /\ db[1].sessionId = db[2].sessionId

\* C5: nothing is persisted before the stream reached its end; then the user
\* turn is written first and the assistant turn second, under one session
\* id, the assistant content being the whole accumulated response; a request
\* that fails or is cancelled has written nothing.
Thm_C5 ==
    /\ Len(db) <= 2
    /\ db # <<>> =>
          /\ EndCount(ui) = 1
          /\ db[1].role = "user"
          /\ db[1].content = Trim(userPrompt)
          /\ db[1].sessionId \in SessionIds
    /\ Len(db) = 2 =>
          /\ db[2].role = "assistant"
          /\ db[2].sessionId = db[1].sessionId
          /\ db[2].content = fullResponse
          /\ db[2].content = Flatten(ChunkTokens(ui))
    /\ (pc = "returned" /\ ~Succeeded(result)) => db = <<>>

Wit_C5 == pc = "returned" /\ Len(db) = 2 /\ db[2].content # <<>>

\* C6: when persistence fails (no user, no session, or a failed write) the
\* request still returns success with the whole accumulated text.
Thm_C6 ==
    persistFailed =>
        /\ pc = "returned"
        /\ result.kind = "object"
        /\ result.success
        /\ result.response = fullResponse
        /\ result.response = Flatten(ChunkTokens(ui))

Wit_C6 == persistFailed /\ Len(db) = 1 /\ fullResponse # <<>>

\* C7: when persistence fails the Result carries a persistError annotation.
Claim_C7 ==
    (pc = "returned" /\ persistFailed) => "persistError" \in DOMAIN result

\* C8: empty or whitespace-only input is rejected with a failure Result and
\* nothing else has happened: no notification, no capture, no key lookup, no
\* provider, no persistence.
Thm_C8 ==
    ~NonBlankPrompt =>
        /\ ui = <<>>
        /\ effects = {}
        /\ streamState = "none"
        /\ db = <<>>
        /\ pc \in { "idle", "returned" }
        /\ pc = "returned" => result = Failure("Empty message")

Wit_C8 == pc = "returned" /\ userPrompt = <<"NL", "sp">> /\ askWindow

\* C9: the chunk notifications are the tokens of the provider stream, one
\* notification per token in stream order, however the stream is cut into
\* reads.  The tokens of the stream are those of its lines taken whole.
StreamTokens ==
    ChunkTokens(HandleLines(sent, [full |-> <<>>, out |-> <<>>, done |-> FALSE]).out)

Claim_C9 ==
    (provider # "bedrock" /\ streamState # "none") =>
        /\ IsPrefix(ChunkTokens(ui), StreamTokens)
        /\ (pc = "returned" /\ wire = <<>> /\ streamState # "errored"
              /\ ~readerCancelled) => ChunkTokens(ui) = StreamTokens

\* C10: a 'data:' line that cannot be parsed does not end or fail the
\* request: at most one single-space token is forwarded (and appended to the
\* buffer) for it, the lines after it are handled as usual, and the read
\* ends as it would have without it.
IsDataLine(line) == StartsWithData(line)
IsDoneLine(line) == IsDataLine(line) /\ Tail(line) = <<"DONE">>
IsMalformed(line) == IsDataLine(line) /\ ~IsDoneLine(line) /\ ~IsEvent(Tail(line))

\* outs is what the lines may produce when a malformed line yields nothing
\* or one single-space chunk
RECURSIVE Allowed(_, _)
Allowed(lines, outs) ==
    IF lines = <<>> THEN outs = <<>>
    ELSE LET l == Head(lines) IN
         IF IsDoneLine(l) THEN outs = << StreamEnd >>
         ELSE IF IsMalformed(l)
         THEN \/ Allowed(Tail(lines), outs)
              \/ /\ outs # <<>>
                 /\ Head(outs) = Chunk(<<"sp">>)
                 /\ Allowed(Tail(lines), Tail(outs))
         ELSE IF IsDataLine(l) /\ EventToken(Tail(l)) # <<>>
         THEN /\ outs # <<>>
              /\ Head(outs) = Chunk(EventToken(Tail(l)))
              /\ Allowed(Tail(lines), Tail(outs))
         ELSE Allowed(Tail(lines), outs)

HasDone(lines) == \E i \in 1..Len(lines) : IsDoneLine(lines[i])
HasMalformed(lines) == \E i \in 1..Len(lines) : IsMalformed(lines[i])

\* the value the read of this step returned
ReadValue ==
    IF provider = "bedrock" THEN Head(queue)
    ELSE SubSeq(wire, 1, Len(wire) - Len(wire'))

IsReadStep ==
    /\ pc = "read"
    /\ IF provider = "bedrock" THEN queue # <<>> /\ queue' = Tail(queue)
       ELSE Len(wire') < Len(wire)

ReadHandlesMalformed ==
    (IsReadStep /\ HasMalformed(Lines(ReadValue))) =>
        LET lines == Lines(ReadValue)
            sentNow == SubSeq(ui', Len(ui) + 1, Len(ui'))
        IN /\ IsPrefix(ui, ui')
           /\ Allowed(lines, sentNow)
           /\ fullResponse' = fullResponse \o Flatten(ChunkTokens(sentNow))
           /\ pc' = IF HasDone(lines) THEN "saveSession" ELSE "read"
           /\ result' = NotReturned

ErrorAfterDispatch ==
    /\ pc = "returned"
    /\ "createStreamingLLM" \in effects
    /\ ~readerCancelled
    /\ streamState \in { "none", "errored" }

AbortedCleanly ==
    ErrorAfterDispatch =>
        /\ Failed(result)
        /\ "error" \in DOMAIN result
        /\ db = <<>>
        /\ "getOrCreateActive" \notin effects
        /\ EndCount(ui) = 0
        /\ \A i \in 1..Len(ui) :
              ui[i] = HideTextInput \/ ui[i] = Chunk(ui[i].token)
        /\ fullResponse = Flatten(ChunkTokens(ui))

ErrorStepSendsNothing ==
    (pc # "returned" /\ ErrorAfterDispatch') => (ui' = ui /\ db' = db)

Thm_C11 == []AbortedCleanly /\ [][ErrorStepSendsNothing]_vars

Wit_C11 ==
    /\ ErrorAfterDispatch
    /\ streamState = "errored"
    /\ Len(ChunkTokens(ui)) = 2

\* C12: once the ask window is gone while a stream is open, the reader is
\* cancelled, no further item of the native provider stream is consumed, and
\* the save is not attempted.
Cancelled == streamState # "none" /\ ~askWindow

CancelStops ==
    Cancelled =>
        /\ readerCancelled
        /\ native' = native
        /\ pc' \notin { "saveSession", "saveUser", "saveAssistant" }

Claim_C12 == [][CancelStops]_vars

\* C13: sendMessage fails because of missing credentials exactly when no key
\* material is resolvable at any level (neither a stored user key nor a key
\* of the environment), and then no adapter has been constructed.
MissingCredential == result = Failure("No API key found")

KeyResolvable ==
    IF provider = "bedrock"
    THEN Or(StoredKeyValue, env["AWS_ACCESS_KEY_ID"]) # None
    ELSE Or(StoredKeyValue, env["OPENAI_API_KEY"]) # None

Claim_C13 ==
    "getStoredApiKey" \in effects =>
        /\ MissingCredential <=> ~KeyResolvable
        /\ MissingCredential => "createStreamingLLM" \notin effects

\* C14: a configuration that getProviderConfig returned (it did not throw)
\* has its provider's primary key material; when the material is absent the
\* call fails with MissingCredentialError instead.
KeyMaterial(c) ==
    IF c.provider = "bedrock" THEN { c.accessKeyId, c.secretAccessKey }
    ELSE { c.apiKey }

Claim_C14 ==
    lastConfig.provider # None =>
        IF None \in KeyMaterial(lastConfig)
        THEN lastConfig.threw = "MissingCredentialError"
        ELSE lastConfig.threw = None

\* C15: with a stored key and the environment's value both set, a field the
\* caller overrides (access key, secret key, region, model id) has the
\* caller's value in the client that is constructed.
Overridden(f) == opts[f] = OptValue(f)

Claim_C15 ==
    (client.created /\ storedKey) =>
        /\ (Overridden("apiKey") /\ env["AWS_ACCESS_KEY_ID"] # None)
              => client.accessKeyId = OptValue("apiKey")
        /\ (Overridden("awsSecretKey") /\ env["AWS_SECRET_ACCESS_KEY"] # None)
              => client.secretAccessKey = OptValue("awsSecretKey")
        /\ (Overridden("region") /\ env["AWS_REGION"] # None)
              => client.region = OptValue("region")
        /\ (Overridden("model") /\ env["AWS_BEDROCK_MODEL"] # None)
              => client.model = OptValue("model")

\* C16: when AWS_SESSION_TOKEN is set, the client is constructed with the
\* environment's access key, secret and session token, whatever key is stored
\* or passed in the options.
Claim_C16 ==
    (client.created /\ env["AWS_SESSION_TOKEN"] # None) =>
        /\ client.accessKeyId = env["AWS_ACCESS_KEY_ID"]
        /\ client.secretAccessKey = env["AWS_SECRET_ACCESS_KEY"]
        /\ client.sessionToken = env["AWS_SESSION_TOKEN"]

\* C17: without AWS_SESSION_TOKEN and without an override, the resolved key is
\* the stored user key when there is one, else the environment's key; the
\* same for the key of a plain provider.
ExpectedKey(envName) == IF storedKey THEN UserKey ELSE env[envName]

Thm_C17 ==
    /\ (lastConfig.provider = "bedrock" /\ env["AWS_SESSION_TOKEN"] = None)
          => lastConfig.accessKeyId = ExpectedKey("AWS_ACCESS_KEY_ID")
    /\ lastConfig.provider = "openai"
          => lastConfig.apiKey = ExpectedKey("OPENAI_API_KEY")
    /\ (client.created /\ opts = NoOpts /\ env["AWS_SESSION_TOKEN"] = None)
          => client.accessKeyId = ExpectedKey("AWS_ACCESS_KEY_ID")

\* the stored key is preferred to the key the environment has as well, in the
\* configuration and in a client created without options
Wit_C17 ==
    /\ storedKey
    /\ env["AWS_ACCESS_KEY_ID"] # None
    /\ env["AWS_SESSION_TOKEN"] = None
    /\ lastConfig.provider = "bedrock"
    /\ lastConfig.accessKeyId = UserKey
    /\ client.created
    /\ opts = NoOpts
    /\ client.accessKeyId = UserKey

\* C18: under an unchanged environment and storage, a getProviderConfig call
\* returns what the previous call for the same provider returned, whatever
\* ran in between, and the call itself changes no state of the manager.
SameSnapshotSameConfig ==
    (/\ lastConfig.provider # None
     /\ lastConfig'.provider = lastConfig.provider
     /\ env' = env
     /\ storedKey' = storedKey) => lastConfig' = lastConfig

ResolutionMutatesNothing ==
    lastConfig' # lastConfig => cachedKnowledgeBaseId' = cachedKnowledgeBaseId

Claim_C18 == [][SameSnapshotSameConfig /\ ResolutionMutatesNothing]_vars

\* C19: the hard-coded defaults are a model id and a region: the hard-coded
\* knowledge-base id is never what a configuration, the manager's cache, the
\* options of a request or the memory manager end up with.
Claim_C19 ==
    /\ lastConfig.provider = "bedrock" => lastConfig.kbId # DefaultKb
    /\ cachedKnowledgeBaseId # DefaultKb
    /\ opts["kbId"] # DefaultKb
    /\ memoryManager.created => memoryManager.knowledgeBaseId # DefaultKb

\* C20: after any appends at any times, the window holds at most maxSize
\* entries, none older than the time window when the last entry was
\* inserted, and they are the most recent unexpired entries that were
\* appended, oldest first.
LastInsert ==
    IF appended = <<>> THEN 0 ELSE appended[Len(appended)].timestamp

Unexpired ==
    SelectSeq(appended, LAMBDA msg : LastInsert - msg.timestamp <= windowTimeMs)

MostRecent(s, n) ==
    IF Len(s) <= n THEN s ELSE SubSeq(s, Len(s) - n + 1, Len(s))

Thm_C20 ==
    /\ Len(shortTerm) <= maxSize
    /\ \A i \in 1..Len(shortTerm) :
          LastInsert - shortTerm[i].timestamp <= windowTimeMs
    /\ shortTerm = MostRecent(Unexpired, maxSize)

\* eleven appends within the time window have left the last ten
Wit_C20 ==
    /\ Len(appended) = maxSize + 1
    /\ Len(Unexpired) = maxSize + 1
    /\ Len(shortTerm) = maxSize
    /\ shortTerm = SubSeq(appended, 2, maxSize + 1)

\* C21: getConversationContext first evicts the entries older than the time
\* window; it returns the sentinel iff no entry remains, and else the header
\* followed by one '<RoleLabel>: <content>' line per remaining entry, oldest
\* first.
RenderStep ==
    /\ appended' = appended
    /\ now' = now
    /\ << shortTerm, context, contextFor >>' # << shortTerm, context, contextFor >>

LabelOf(role) ==
    CASE role = "client" -> "Manager"
      [] role = "assistant" -> "Assistant"
      [] role = "vision" -> "Visual"
      [] OTHER -> "User"

Young(window, t) ==
    SelectSeq(window, LAMBDA msg : t - msg.timestamp <= windowTimeMs)

RendersWindow ==
    RenderStep =>
        LET lines == SplitNL(context', <<>>) IN
        /\ shortTerm' = Young(shortTerm, now)
        /\ (context' = Sentinel) <=> (shortTerm' = <<>>)
        /\ shortTerm' # <<>> =>
              /\ Len(lines) = Len(shortTerm') + 1
              /\ lines[1] = Header
              /\ \A i \in 1..Len(shortTerm') :
                    lines[i + 1] = << LabelOf(shortTerm'[i].role), ":", "sp" >>
                                     \o shortTerm'[i].content
              /\ \A i \in 1..(Len(shortTerm') - 1) :
                    shortTerm'[i].timestamp <= shortTerm'[i + 1].timestamp

Thm_C21 == [][RendersWindow]_vars

\* an entry was appended, time went past the window, and the rendering
\* returned the sentinel
Wit_C21 ==
    /\ appended # <<>>
    /\ now - appended[Len(appended)].timestamp > windowTimeMs
    /\ shortTerm = <<>>
    /\ context = Sentinel
    /\ contextFor # 0

\* C22: the context rendered for an adapter holds entries appended through
\* that adapter only.
RenderedEntries(c) == IF c = Sentinel THEN 0 ELSE Len(SplitNL(c, <<>>)) - 1

OwnEntriesOnly ==
    RenderStep =>
        \A i \in 1..RenderedEntries(context') :
            AdapterOf(Len(appended) - RenderedEntries(context') + i) = contextFor'

Claim_C22 == [][OwnEntriesOnly]_vars

\* C29: a factory call for an unknown provider and one for a known provider
\* that lacks the mode fail with errors of distinct kinds, and a failed call
\* returns no adapter.
CheckFailed(r) == r.called /\ ~r.passed
ErrorKind(e) == [name |-> e.name, form |-> e.message[1]]

DistinctErrors ==
    (/\ CheckFailed(factoryResult) /\ ~factoryResult.known
     /\ CheckFailed(factoryResult') /\ factoryResult'.known)
        => ErrorKind(factoryResult.error) # ErrorKind(factoryResult'.error)

NoAdapterOnFailure ==
    (factoryResult.called /\ factoryResult.error # NoError)
        => ~factoryResult.adapter

Claim_C29 == []NoAdapterOnFailure /\ [][DistinctErrors]_vars

\* C30: createSTT for Bedrock goes to the STT provider, and the key that
\* provider is handed is the environment's OPENAI_API_KEY, never the apiKey of
\* the caller's options, also when the environment has no key.
Claim_C30 ==
    (/\ factoryResult.called
     /\ factoryResult.mode = "stt"
     /\ factoryResult.requested = "bedrock") =>
        /\ factoryResult.provider = "openai"
        /\ factoryResult.passed =>
              factoryResult.handed["apiKey"] = env["OPENAI_API_KEY"]

\* C27: when the first attempt answers with at most 50 characters, the second
\* attempt is issued, and of two answers the longer one is returned (the
\* first one when they are equally long).
Longer(m, n) == IF m >= n THEN m ELSE n

AssistantEntries == SelectSeq(appended, LAMBDA msg : msg.role = "assistant")

\* what a reader makes of everything the adapter has enqueued
Reassembled ==
    HandleLines(Lines(Flatten(emitted)),
                [full |-> <<>>, out |-> <<>>, done |-> FALSE]).full

Completed == provider = "bedrock" /\ streamState = "closed" /\ ~readerCancelled

Orig_C23 == Completed => Len(AssistantEntries) = 1

\* C23, amended: a stream that completes with a reassembled text that is not
\* empty has appended that text once, as the newest entry of the window and
\* under the assistant role, and no token is enqueued after it; a stream
\* that is open or ended in an error has appended no assistant entry.
AppendedOnce ==
    /\ Len(AssistantEntries) <= 1
    /\ (Completed /\ Reassembled # <<>>) =>
          /\ AssistantEntries = << [role |-> "assistant", content |-> Reassembled,
                                    timestamp |-> now] >>
          /\ shortTerm # <<>>
          /\ shortTerm[Len(shortTerm)] = AssistantEntries[1]
    /\ streamState \in { "none", "open", "errored" } => AssistantEntries = <<>>

NoTokenAfterAppend == AssistantEntries # <<>> => emitted' = emitted

Thm_C23 == []AppendedOnce /\ [][NoTokenAfterAppend]_vars

\* two tokens were enqueued, the stream completed, and their concatenation is
\* the assistant entry
Wit_C23 ==
    /\ Completed
    /\ Len(emitted) = 2
    /\ Len(Reassembled) >= 2
    /\ Len(AssistantEntries) = 1
    /\ AssistantEntries[1].content = Reassembled

\* C24: a Bedrock stream closes normally only when the native stream is
\* exhausted; a native error puts it into the errored state, after which
\* nothing more is enqueued; the reader sees the end of a stream only when it
\* is closed or errored, and after an error sendMessage returns a failure.
ClosesOnlyAtEnd ==
    (provider = "bedrock" /\ streamState = "open" /\ streamState' = "closed")
        => native = <<>>

ErrorIsFinal ==
    streamState = "errored" => (streamState' = "errored" /\ emitted' = emitted)

ErrorSurfaces ==
    (pc = "returned" /\ streamState # "none" /\ ~readerCancelled) =>
        /\ provider = "bedrock" => streamState \in { "closed", "errored" }
        /\ streamState = "errored" => Failed(result)

Thm_C24 == []ErrorSurfaces /\ [][ClosesOnlyAtEnd /\ ErrorIsFinal]_vars

\* a token was enqueued, the native stream failed with an item still to
\* come, and the request returned a failure
Wit_C24 ==
    /\ provider = "bedrock"
    /\ streamState = "errored"
    /\ emitted # <<>>
    /\ native # <<>>
    /\ pc = "returned"
    /\ Failed(result)

\* C25 as stated: one iteration of the adapter's loop enqueues, for an item
\* with delta text, one token that is the text with its control characters
\* (and the artifacts) stripped, and nothing for any other item; the stream
\* stays open.
TokenOf(chunk) == EventToken(Tail(Lines(chunk)[1]))
HasUnit(t, u) == \E i \in 1..Len(t) : t[i] = u
Without(t, units) == SelectSeq(t, LAMBDA u : u \notin units)
ControlCharacters == { "nul", "lf" }
ArtifactFree(t) == ~HasUnit(t, "ed") /\ ~HasUnit(t, "lt")

PumpStep ==
    /\ provider = "bedrock" /\ native # <<>> /\ native' = Tail(native)
    /\ ~readerCancelled

PumpYields(stripped) ==
    PumpStep =>
        LET item == Head(native) IN
        /\ streamState' = "open"
        /\ IF item.kind = "delta" /\ item.text # <<>>
           THEN /\ Len(emitted') = Len(emitted) + 1
                /\ SubSeq(emitted', 1, Len(emitted)) = emitted
                /\ queue' = Append(queue, emitted'[Len(emitted')])
                /\ LET t == TokenOf(emitted'[Len(emitted')]) IN
                     /\ \A u \in stripped \cup { "ed", "lt" } : ~HasUnit(t, u)
                     /\ ArtifactFree(item.text) => t = Without(item.text, stripped)
                     /\ item.text = <<"ed", "sp", "a">> => t = <<"a">>
           ELSE emitted' = emitted /\ queue' = queue

Claim_C26 ==
    (/\ provider = "bedrock"
     /\ "streamChat" \in effects
     /\ env["AWS_KNOWLEDGE_BASE_ID"] = None) =>
        (kbResult.called => (kbResult.calls = 0 /\ kbResult.context = EmptyFallback))

\* C28: queryKnowledgeBase throws nothing on to its caller; when an attempt
\* fails, the fallback and no citations are returned; and the only failure
\* of the streamChat step is that of the provider call itself.
AttemptFailed(x) == x # NotIssued /\ ~x.ok

KbAbsorbed ==
    kbResult.called =>
        /\ ~kbResult.threw
        /\ (AttemptFailed(kbResult.a) \/ AttemptFailed(kbResult.b)) =>
              /\ kbResult.context = EmptyFallback
              /\ kbResult.citations = 0

RequestGoesOn ==
    (pc = "streamChat" /\ pc' # "streamChat" /\ Failed(result')) =>
        result' = Failure("streamChat failed")

Thm_C28 == []KbAbsorbed /\ [][RequestGoesOn]_vars

\* the second attempt failed after an empty first answer, and the provider
\* was invoked: its stream is open
Wit_C28 ==
    /\ kbResult.called
    /\ kbResult.a.ok
    /\ AttemptFailed(kbResult.b)
    /\ kbResult.context = EmptyFallback
    /\ streamState = "open"
    /\ pc = "read"

\* C31: a failed screenshot capture, reported as an unsuccessful result or
\* raised as an exception, never aborts the request: the step after the
\* capture is the next step of the request, and a failed capture leaves the
\* user message without an image part.
CaptureStep == pc = "capture" /\ pc' # "capture"

CaptureNeverAborts ==
    CaptureStep => (pc' = "getkey" /\ result' = NotReturned)

NoImageWithoutCapture ==
    (screenshot /\ "streamChat" \in effects) => "captureScreenshot" \in effects

Claim_C31 == [][CaptureNeverAborts]_vars /\ []NoImageWithoutCapture

\* C32: when the first attempt answers with more than 50 characters,
\* queryKnowledgeBase returns that text, with the citation block after it
\* when there are citations, and the first attempt's citations, and it has
\* issued one call: the second attempt is not issued.
GoodFirstAnswer ==
    kbResult.called /\ kbResult.a.ok /\ kbResult.a.len > kbThreshold

Thm_C32 ==
    GoodFirstAnswer =>
        /\ kbResult.context =
              KbText("A", kbResult.a.len, kbResult.a.citations > 0)
        /\ kbResult.citations = kbResult.a.citations
        /\ kbResult.calls = 1
        /\ kbResult.b = NotIssued

\* a first answer of 51 characters with a citation, returned with its block
Wit_C32 ==
    /\ GoodFirstAnswer
    /\ kbResult.a.len = kbThreshold + 1
    /\ kbResult.a.citations > 0
    /\ kbResult.context.cited
    /\ kbResult.calls = 1

\* C33: the citations queryKnowledgeBase returns are those of the attempt
\* whose text it returns, and none when it returns the fallback.
Claim_C33 ==
    kbResult.called =>
        /\ kbResult.context.from = "A" => kbResult.citations = kbResult.a.citations
        /\ kbResult.context.from = "B" => kbResult.citations = kbResult.b.citations
        /\ kbResult.context = EmptyFallback => kbResult.citations = 0

\* C36: when the first attempt answers with a text of at most 50 characters
\* that is not empty and the second attempt fails, queryKnowledgeBase
\* returns the first attempt's text and citations; the fallback is returned
\* only when no attempt produced a text.
ProducedText(x) == x # NotIssued /\ x.ok /\ x.len > 0

Claim_C36 ==
    kbResult.called =>
        /\ (ProducedText(kbResult.a) /\ kbResult.a.len <= kbThreshold
            /\ kbResult.b # NotIssued /\ ~kbResult.b.ok) =>
              /\ kbResult.context.from = "A"
              /\ kbResult.context.len = kbResult.a.len
              /\ kbResult.citations = kbResult.a.citations
        /\ kbResult.context = EmptyFallback =>
              (~ProducedText(kbResult.a) /\ ~ProducedText(kbResult.b))

\* C34: for every key term, expandQueryWithSynonyms lists at most 3
\* synonyms, whether the term is a key of the table or matches keys by
\* containment.
Claim_C34 == synResult.called => Len(synResult.listed) <= synonymCap

\* C35: the translation appends every user and every assistant text turn of
\* the messages to the memory window, in the order of the messages and
\* before the context is rendered, whether the content is a string or a list
\* of parts; system messages are not appended.
TextTurns(m) ==
    IF m.role = "system" THEN <<>>
    ELSE LET texts == SelectSeq(m.content.parts, LAMBDA c : c.type = "text")
         IN [i \in 1..Len(texts) |-> [content |-> texts[i].text, role |-> m.role]]

ExpectedTurns(msgs) == Flatten([i \in 1..Len(msgs) |-> TextTurns(msgs[i])])

AppendedByTranslation ==
    LET es == TranslationAppends(translation.messages)
        new == SubSeq(appended, translation.before + 1, translation.before + Len(es))
        turns == SelectSeq(new, LAMBDA e : e.role \in { "user", "assistant" })
    IN [i \in 1..Len(turns) |-> [content |-> turns[i].content, role |-> turns[i].role]]

Claim_C35 ==
    (translation.called /\ streamState \in { "none", "open" } /\ emitted = <<>>) =>
        /\ AppendedByTranslation = ExpectedTurns(translation.messages)
        /\ context = getConversationContext(shortTerm, now).context

\* C37: within a request the stream-end notification is sent at most once
\* and no chunk notification is sent after it, even when the provider's
\* stream has data lines after 'data: [DONE]'.
EndsSent == SelectSeq(ui, LAMBDA n : n = StreamEnd)

EndIsLast ==
    /\ Len(EndsSent) <= 1
    /\ EndsSent # <<>> => ui[Len(ui)] = StreamEnd

NothingAfterEnd == EndsSent # <<>> => ui' = ui

Thm_C37 == []EndIsLast /\ [][NothingAfterEnd]_vars

\* the provider's stream had a token line after [DONE]; the request has
\* returned, and the stream-end notification is the last one sent
Wit_C37 ==
    /\ pc = "returned"
    /\ Len(sent) >= 2
    /\ sent[1] = DoneLine
    /\ sent[2] = TokLine(<<"a">>)
    /\ ui # <<>> /\ ui[Len(ui)] = StreamEnd
    /\ Succeeded(result)

\* C38: at every point of a request the response buffer is the
\* concatenation, in order, of the tokens forwarded to the UI so far, the
\* blanks of the salvage included; what is returned and what is persisted
\* as the answer is that text; no empty token is forwarded.
ChunksSent == SelectSeq(ui, LAMBDA n : n.type = "ask-response-chunk")
Forwarded == Flatten([i \in 1..Len(ChunksSent) |-> ChunksSent[i].token])

BufferIsForwarded ==
    /\ fullResponse = Forwarded
    /\ \A i \in 1..Len(ChunksSent) : ChunksSent[i].token # <<>>
    /\ Succeeded(result) => result.response = Forwarded
    /\ \A i \in 1..Len(db) :
          db[i].role = "assistant" => db[i].content = Forwarded

ManagerReady ==
    /\ HasRetrievalClient(memoryManager)
    /\ memoryManager.knowledgeBaseId # None

ReturnedOnReady == \A c \in Calls : build[c].pc = "returned" => ManagerReady

NoRequestSkipsRetrieval == "skippedBy" \notin DOMAIN kbResult

Claim_C39 == ReturnedOnReady /\ NoRequestSkipsRetrieval

\* C40: the knowledge-base id retrieval queries with is the id configured
\* last: after BedrockService.setKnowledgeBase(k), or after an adapter is
\* constructed with option kbId = k, the queries go to k and the credential
\* manager reports k (ids are compared without the blanks around them).
ReportsConfigured ==
    kbConfig.configured # None => getKnowledgeBaseId = TrimId(kbConfig.configured)

QueryTargetsConfigured ==
    (kbResult' # kbResult /\ kbConfig.configured # None) =>
        TrimId(kbResult'.target) = TrimId(kbConfig.configured)

Claim_C40 == []ReportsConfigured /\ [][QueryTargetsConfigured]_vars

====
